---- MODULE Spec2Model ----
(***************************************************************************)
(* Model of the yamcs_link engine (src/yamcs_link.py): the TCP command     *)
(* link, the UDP telemetry scheduler, command validation and dispatch,     *)
(* the disconnect notification and the shutdown sequence.  The older copy  *)
(* of the engine kept in src/yamcs_link/src/yamcs_link.py is modelled by   *)
(* the legacy_* definitions and the specification SpecLegacy.              *)
(*                                                                         *)
(* The sequential code of a method is an operator from a state record to   *)
(* a state record; the field exc of the record is TRUE while a Python      *)
(* exception is propagating.  An action packs the variables in a record,   *)
(* applies the method and unpacks the result.                              *)
(***************************************************************************)
EXTENDS Integers, Sequences, FiniteSets, TLC

VARIABLES
  tcp_client_socket,   \* self.tcp_client_socket: None or the accepted socket
  monitored_sock,      \* self.monitored_sock: the list given to select()
  closed,              \* the sockets on which close() has taken effect
  nacc,                \* number of connections accepted so far
  backlog,             \* connection requests waiting on the listening socket
  rx,                  \* per accepted socket: what its next recv() yields
  last_tm_send_time,   \* self.last_tm_send_time: period -> time of last send
  now,                 \* the clock read by time.time(), in milliseconds
  trace,               \* what the last operation did, in order
  rx_data,             \* the buffer returned by recv() in the last operation
  op,                  \* the last operation: "init", "env", "service", "shutdown",
                       \* "handle_command", "update_index",
                       \* "register_yamcs_child", "SerDer", "_register_telemetry",
                       \* "serialise", "deserialise", "event", "__init__",
                       \* "generate_mdb"
  raised,              \* TRUE iff the last operation raised to its caller
  tc_calls,            \* the handler invocations of the last operation
  udp_out,             \* the datagrams given to sendto() in the last operation
  tm_sent,             \* per group, in the timed run of the driver loop: the number
                       \* of datagrams sent and the clock of the step of the last one
  tree,                \* the component tree update_index() is applied to
  index,               \* self.telemetry and self.commands as update_index() left them
  serder,              \* the SerDer object under study, NoSerDer before it is built
  codec,               \* the last call on it: arguments, result, exception
  created,             \* the sockets made by socket.socket() in __init__
  emitted              \* the last call of a method tagged @event: who, what

vars == <<tcp_client_socket, monitored_sock, closed, nacc, backlog, rx,
          last_tm_send_time, now, trace, rx_data, op, raised, tc_calls, udp_out,
          tm_sent, tree, index, serder, codec, created, emitted>>

----------------------------------------------------------------------------
(* Bounds of the model *)

MaxConn == 2         \* connections the peer side opens in one run
MaxTime == 4000      \* the clock stops advancing here (ms)
TickMs == 500        \* the clock advances by this much (ms)
StartTime == 2000    \* the clock at construction (ms); wall-clock time is large
MaxArgLen == 2       \* largest argument size of a registered command (bytes)
SimDuration == 2500  \* length of the timed run of the driver loop (ms)
MaxFields == 2       \* longest field list of a SerDer
MaxBufLen == 3       \* largest minsize of a SerDer that decodes received buffers

----------------------------------------------------------------------------
(* Sockets *)

None == 0            \* Python's None
ServerSock == 1      \* self.tcp_server_socket
UdpSock == 2         \* self.udp_socket
ConnSock(i) == 2 + i \* the socket returned by the i-th successful accept()
ConnSocks == {ConnSock(i) : i \in 1..MaxConn}
ListenBacklog == 1   \* listen(1)

Range(f) == {f[i] : i \in DOMAIN f}

\* list.remove(x): removes the first occurrence of x
RECURSIVE list_remove(_, _)
list_remove(l, x) ==
  IF l = <<>> THEN <<>>
  ELSE IF Head(l) = x THEN Tail(l) ELSE <<Head(l)>> \o list_remove(Tail(l), x)

----------------------------------------------------------------------------
(* The application: component tree, commands, telemetry groups *)

Root == 1            \* the YAMCS_link itself
\* children[n]: the list of components registered under n, in registration order
children == [n \in 1..4 |-> CASE n = 1 -> <<2, 4>> [] n = 2 -> <<3>> [] OTHER -> <<>>]
\* the components that are containers (isinstance(child, YAMCSContainer))
Containers == {1, 2}
Components == {2, 3, 4}

\* self.commands: per opcode, the argument codec's minsize in bytes
commands == <<MaxArgLen, 0>>
\* cmd['serder'].fields per opcode: the declared argument names in order, each
\* with the width in bytes of its unsigned type
command_args ==
  <<(<<[name |-> "arg1", width |-> 1], [name |-> "arg2", width |-> MaxArgLen - 1]>>),
    (<<>>)>>
\* self.get_tm_periods(): the periods in first-seen order (ms)
TmPeriods == <<1000, 2000>>
\* the encoded size of each group's points, in declaration order (bytes)
TmPointSizes == <<(<<1>>), (<<1, 1>>)>>
\* the value each point's producer returns
TmPointValues == <<(<<1>>), (<<42, 7>>)>>

----------------------------------------------------------------------------
(* Bytes and buffers *)

\* width in bytes of the opcode field of the command header: the type
\* YAMCSMDBGen.OPCODE_TYPE is set by the mission-database generator, outside
\* these sources, so the width is a parameter of the model
OpcodeBytes == 1
\* widths in bytes of the two fields of the telemetry header, and the value of
\* PacketType in a telemetry packet: YAMCSMDBGen.PACKETTYPE_TYPE, PACKETID_TYPE
\* and PACKETTYPE_TLM are set outside these sources as well
PacketTypeBytes == 1
PacketIdBytes == 1
TM_PACKETTYPE_VAL == 1
\* the value of PacketType in an event packet, YAMCSMDBGen.PACKETTYPE_EVENT
EVENTS_PACKETTYPE_VAL == 2
\* sizes of the source and message fields of an event packet
EVENT_SOURCESTR_SIZE == 80
EVENT_MSG_SIZE == 256
\* 0xFEEDCAFE as the 4 big-endian bytes of its U32 encoding
START_WORD == <<254, 237, 202, 254>>
StartWordBytes == 4
\* command_header_serder.minsize
HeaderSize == StartWordBytes + OpcodeBytes

Zeros(n) == [i \in 1..n |-> 0]

\* struct.pack('>' + unsigned of w bytes, v)
RECURSIVE pack_unsigned(_, _)
pack_unsigned(v, w) ==
  IF w = 0 THEN <<>> ELSE Append(pack_unsigned(v \div 256, w - 1), v % 256)

\* struct.unpack('>' + unsigned, b)
RECURSIVE unpack_unsigned(_)
unpack_unsigned(b) ==
  IF b = <<>> THEN 0
  ELSE 256 * unpack_unsigned(SubSeq(b, 1, Len(b) - 1)) + b[Len(b)]

\* the buffers the peer writes: good and bad start words, opcodes in and out of
\* range, argument bytes too few, exact and too many, and every truncation
Words == {START_WORD, <<254, 237, 202, 255>>, <<0, 237, 202, 254>>}
\* the argument bytes the peer writes: all zero, or 1, 2, 3, ...
ArgBytes(n) == {Zeros(n), [i \in 1..n |-> i]}
FullBuffers ==
  {w \o pack_unsigned(o, OpcodeBytes) \o a :
     w \in Words, o \in 0..Len(commands),
     a \in UNION {ArgBytes(n) : n \in {0, MaxArgLen - 1, MaxArgLen, MaxArgLen + 1}}}
Buffers == UNION {{SubSeq(b, 1, k) : k \in 1..Len(b)} : b \in FullBuffers}

----------------------------------------------------------------------------
(* State records and events *)

Ev(e, a) == [ev |-> e, arg |-> a]
Log(s, e, a) == [s EXCEPT !.trace = Append(@, Ev(e, a))]
Raise(s) == [s EXCEPT !.exc = TRUE]

Cur ==
  [client |-> tcp_client_socket, mon |-> monitored_sock, closed |-> closed,
   nacc |-> nacc, backlog |-> backlog, rx |-> rx, last |-> last_tm_send_time,
   now |-> now, trace |-> <<>>, data |-> <<>>, exc |-> FALSE,
   calls |-> <<>>, udp |-> <<>>, bad |-> {}]

Unpack(s) ==
  /\ tcp_client_socket' = s.client
  /\ monitored_sock' = s.mon
  /\ closed' = s.closed
  /\ nacc' = s.nacc
  /\ backlog' = s.backlog
  /\ rx' = s.rx
  /\ last_tm_send_time' = s.last
  /\ now' = s.now
  /\ trace' = s.trace
  /\ rx_data' = s.data
  /\ raised' = s.exc
  /\ tc_calls' = s.calls
  /\ udp_out' = s.udp

\* socket.close(): takes effect once, later calls do nothing
sock_close(s, k) ==
  IF k \in s.closed THEN s
  ELSE Log([s EXCEPT !.closed = @ \cup {k},
                     !.rx = [c \in DOMAIN @ |-> IF c = k THEN "closed" ELSE @[c]]],
           "close", k)

----------------------------------------------------------------------------
(* Command validation and dispatch *)

\* command_header_serder.deserialise(data): decodes the first HeaderSize bytes;
\* the start word is kept as its 4 big-endian bytes
command_header_deserialise(data) ==
  [start_word |-> SubSeq(data, 1, StartWordBytes),
   opcode |-> unpack_unsigned(SubSeq(data, StartWordBytes + 1, HeaderSize))]

\* a decoding that hands the unpacked values to the names in reverse order
RECURSIVE deserialise_reversed(_, _)
deserialise_reversed(fields, b) ==
  IF fields = <<>> THEN <<>>
  ELSE LET f == fields[Len(fields)]
       IN (f.name :> unpack_unsigned(SubSeq(b, 1, f.width)))
          @@ deserialise_reversed(SubSeq(fields, 1, Len(fields) - 1),
                                  SubSeq(b, f.width + 1, Len(b)))

\* SerDer.deserialise(byte_stream, exact_length=True) once the length fits:
\* struct.unpack yields one big-endian value per field, in field order, and
\* the result maps each field name to its value
RECURSIVE deserialise(_, _)
deserialise(fields, b) ==
  IF fields = <<>> THEN <<>>
  ELSE LET f == Head(fields)
       IN (f.name :> unpack_unsigned(SubSeq(b, 1, f.width)))
          @@ deserialise(Tail(fields), SubSeq(b, f.width + 1, Len(b)))

\* a version that decodes the arguments from the first bytes and ignores the
\* rest
call_tc_ignores_trailing(s, opcode, arg_data, handlerRaises) ==
  IF Len(arg_data) < commands[opcode + 1]
  THEN Raise(Log(s, "decode_args_fail", opcode))
  ELSE LET kwargs == deserialise(command_args[opcode + 1], arg_data)
           s1 == [Log(s, "handler", opcode) EXCEPT
                    !.calls = Append(@, [opcode |-> opcode, kwargs |-> kwargs])]
       IN IF handlerRaises THEN Raise(Log(s1, "handler_raise", opcode)) ELSE s1

\* YAMCS_object.call_tc: exact-length decode of the arguments, then the handler
\* is called with the decoded values as keyword arguments.
\* handlerRaises: whether the handler raises when it is invoked.
call_tc(s, opcode, arg_data, handlerRaises) ==
  IF Len(arg_data) # commands[opcode + 1]
  THEN Raise(Log(s, "decode_args_fail", opcode))
  ELSE LET kwargs == deserialise(command_args[opcode + 1], arg_data)
           s1 == [Log(s, "handler", opcode) EXCEPT
                    !.calls = Append(@, [opcode |-> opcode, kwargs |-> kwargs])]
       IN IF handlerRaises THEN Raise(Log(s1, "handler_raise", opcode)) ELSE s1

\* the same with the length check of line 278 left out
handle_command_no_length_check(s, data, handlerRaises) ==
  IF Len(data) < HeaderSize THEN Log(s, "drop_short", 0)
  ELSE
    LET s1 == Log(s, "decode_header", 0)
        header == command_header_deserialise(data)
        opcode == header.opcode
    IN IF header.start_word # START_WORD THEN Log(s1, "drop_start_word", 0)
       ELSE IF opcode >= Len(commands) THEN Log(s1, "drop_opcode", opcode)
       ELSE LET r == call_tc(s1, opcode, SubSeq(data, HeaderSize + 1, Len(data)),
                             handlerRaises)
            IN IF r.exc THEN Log([r EXCEPT !.exc = FALSE], "err_command", opcode)
               ELSE Log(r, "executed", opcode)

\* the same with the start-word check of line 267 left out
handle_command_no_start_word_check(s, data, handlerRaises) ==
  IF Len(data) < HeaderSize THEN Log(s, "drop_short", 0)
  ELSE
    LET s1 == Log(s, "decode_header", 0)
        header == command_header_deserialise(data)
        opcode == header.opcode
    IN IF opcode >= Len(commands) THEN Log(s1, "drop_opcode", opcode)
       ELSE IF Len(data) < HeaderSize + commands[opcode + 1]
            THEN Log(s1, "drop_incomplete", opcode)
       ELSE LET r == call_tc(s1, opcode, SubSeq(data, HeaderSize + 1, Len(data)),
                             handlerRaises)
            IN IF r.exc THEN Log([r EXCEPT !.exc = FALSE], "err_command", opcode)
               ELSE Log(r, "executed", opcode)

\* the same without the try/except around call_tc of lines 282-286
handle_command_propagates(s, data, handlerRaises) ==
  IF Len(data) < HeaderSize THEN Log(s, "drop_short", 0)
  ELSE
    LET s1 == Log(s, "decode_header", 0)
        header == command_header_deserialise(data)
        opcode == header.opcode
    IN IF header.start_word # START_WORD THEN Log(s1, "drop_start_word", 0)
       ELSE IF opcode >= Len(commands) THEN Log(s1, "drop_opcode", opcode)
       ELSE IF Len(data) < HeaderSize + commands[opcode + 1]
            THEN Log(s1, "drop_incomplete", opcode)
       ELSE LET r == call_tc(s1, opcode, SubSeq(data, HeaderSize + 1, Len(data)),
                             handlerRaises)
            IN IF r.exc THEN r ELSE Log(r, "executed", opcode)

\* a version that gives up the client when the start word is wrong
handle_command_drop_forgets_client(s, data, handlerRaises) ==
  IF Len(data) < HeaderSize THEN Log(s, "drop_short", 0)
  ELSE
    LET s1 == Log(s, "decode_header", 0)
        header == command_header_deserialise(data)
        opcode == header.opcode
    IN IF header.start_word # START_WORD
       THEN Log([s1 EXCEPT !.mon = list_remove(@, s.client), !.client = None],
                "drop_start_word", 0)
       ELSE IF opcode >= Len(commands) THEN Log(s1, "drop_opcode", opcode)
       ELSE IF Len(data) < HeaderSize + commands[opcode + 1]
            THEN Log(s1, "drop_incomplete", opcode)
       ELSE LET r == call_tc(s1, opcode, SubSeq(data, HeaderSize + 1, Len(data)),
                             handlerRaises)
            IN IF r.exc THEN Log([r EXCEPT !.exc = FALSE], "err_command", opcode)
               ELSE Log(r, "executed", opcode)

\* YAMCS_link.handle_command
handle_command(s, data, handlerRaises) ==
  IF Len(data) < HeaderSize THEN Log(s, "drop_short", 0)
  ELSE
    LET s1 == Log(s, "decode_header", 0)
        header == command_header_deserialise(data)
        opcode == header.opcode
    IN IF header.start_word # START_WORD THEN Log(s1, "drop_start_word", 0)
       ELSE IF opcode >= Len(commands) THEN Log(s1, "drop_opcode", opcode)
       ELSE IF Len(data) < HeaderSize + commands[opcode + 1]
            THEN Log(s1, "drop_incomplete", opcode)
       ELSE LET r == call_tc(s1, opcode, SubSeq(data, HeaderSize + 1, Len(data)),
                             handlerRaises)
            IN IF r.exc THEN Log([r EXCEPT !.exc = FALSE], "err_command", opcode)
               ELSE Log(r, "executed", opcode)

----------------------------------------------------------------------------
(* Telemetry scheduler *)

\* what one group's evaluation meets: "ok", "enc" (the producer or the encoding
\* of the point at position at raises inside get_tm_values) or "send" (sendto
\* raises)
TmOutcome(i) ==
  {[kind |-> "ok", at |-> 0], [kind |-> "send", at |-> 0]}
  \cup {[kind |-> "enc", at |-> j] : j \in 1..Len(TmPointSizes[i])}
TmOutcomes ==
  {out \in [1..Len(TmPeriods) -> UNION {TmOutcome(i) : i \in 1..Len(TmPeriods)}] :
     \A i \in 1..Len(TmPeriods) : out[i] \in TmOutcome(i)}
TmAllOk == [i \in 1..Len(TmPeriods) |-> [kind |-> "ok", at |-> 0]]

RECURSIVE SumSeq(_)
SumSeq(q) == IF q = <<>> THEN 0 ELSE Head(q) + SumSeq(Tail(q))

\* the loop of get_tm_values from point j on, values being the bytes so far;
\* the point at position failAt raises
RECURSIVE get_tm_values_from(_, _, _, _)
get_tm_values_from(i, j, values, failAt) ==
  IF j > Len(TmPointSizes[i]) THEN [exc |-> FALSE, values |-> values]
  ELSE IF j = failAt THEN [exc |-> TRUE, values |-> values]
  ELSE get_tm_values_from(i, j + 1,
         values \o pack_unsigned(TmPointValues[i][j], TmPointSizes[i][j]), failAt)

\* a version that leaves a failing point out and goes on with the next
RECURSIVE get_tm_values_skips_from(_, _, _, _)
get_tm_values_skips_from(i, j, values, failAt) ==
  IF j > Len(TmPointSizes[i]) THEN [exc |-> FALSE, values |-> values]
  ELSE IF j = failAt THEN get_tm_values_skips_from(i, j + 1, values, failAt)
  ELSE get_tm_values_skips_from(i, j + 1,
         values \o pack_unsigned(TmPointValues[i][j], TmPointSizes[i][j]), failAt)

get_tm_values_skips_failed(i, failAt) == get_tm_values_skips_from(i, 1, <<>>, failAt)

\* YAMCS_object.get_tm_values(period): the concatenated encodings of the
\* group's points in declaration order; an exception leaves the loop
get_tm_values(i, failAt) == get_tm_values_from(i, 1, <<>>, failAt)

\* tm_header_serder.serialise([TM_PACKETTYPE_VAL, i_period])
tm_header(i_period) ==
  pack_unsigned(TM_PACKETTYPE_VAL, PacketTypeBytes)
  \o pack_unsigned(i_period, PacketIdBytes)

\* a version of the loop that compares the elapsed milliseconds with the
\* period in seconds
RECURSIVE send_telemetry_loop_period_in_seconds(_, _, _, _)
send_telemetry_loop_period_in_seconds(s, i, t, out) ==
  IF i > Len(TmPeriods) THEN s
  ELSE
    LET period == TmPeriods[i]
        s1 == IF period \in DOMAIN s.last THEN s
              ELSE [s EXCEPT !.last = @ @@ (period :> 0)]
    IN IF t - s1.last[period] >= period \div 1000
       THEN LET tm == get_tm_values(i, out[i].at)
            IN IF tm.exc THEN Raise(Log(s1, "encode_fail", i - 1))
            ELSE LET tm_data == tm.values
                     s2 == IF Len(tm_data) > 0
                           THEN IF out[i].kind = "send" \/ UdpSock \in s1.closed
                                THEN Raise(Log(s1, "sendto_fail", i - 1))
                                ELSE [Log(s1, "tm", i - 1) EXCEPT
                                        !.udp = Append(@, tm_header(i - 1) \o tm_data)]
                           ELSE s1
                 IN IF s2.exc THEN s2
                    ELSE send_telemetry_loop_period_in_seconds(
                           [s2 EXCEPT !.last[period] = t], i + 1, t, out)
       ELSE send_telemetry_loop_period_in_seconds(s1, i + 1, t, out)

\* the loop of send_telemetry from group i on; t is current_time
RECURSIVE send_telemetry_loop(_, _, _, _)
send_telemetry_loop(s, i, t, out) ==
  IF i > Len(TmPeriods) THEN s
  ELSE
    LET period == TmPeriods[i]
        s1 == IF period \in DOMAIN s.last THEN s
              ELSE [s EXCEPT !.last = @ @@ (period :> 0)]
    IN IF t - s1.last[period] >= period
       THEN LET tm == get_tm_values(i, out[i].at)
            IN IF tm.exc THEN Raise(Log(s1, "encode_fail", i - 1))
            ELSE LET tm_data == tm.values
                     s2 == IF Len(tm_data) > 0
                           THEN IF out[i].kind = "send" \/ UdpSock \in s1.closed
                                THEN Raise(Log(s1, "sendto_fail", i - 1))
                                ELSE [Log(s1, "tm", i - 1) EXCEPT
                                        !.udp = Append(@, tm_header(i - 1) \o tm_data)]
                           ELSE s1
                 IN IF s2.exc THEN s2
                    ELSE send_telemetry_loop([s2 EXCEPT !.last[period] = t],
                                             i + 1, t, out)
       ELSE send_telemetry_loop(s1, i + 1, t, out)

\* a version without the try/except: the exception reaches service()
send_telemetry_propagates(s, out) ==
  send_telemetry_loop(Log(s, "sched", s.client), 1, s.now, out)

\* send_telemetry around that loop
send_telemetry_period_in_seconds(s, out) ==
  LET r == send_telemetry_loop_period_in_seconds(Log(s, "sched", s.client), 1,
                                                  s.now, out)
  IN IF r.exc THEN Log([r EXCEPT !.exc = FALSE], "err_telemetry", 0) ELSE r

\* a version in which a group without a last-send time starts its period at
\* the first evaluation
send_telemetry_first_after_period(s, out) ==
  LET s0 == [s EXCEPT !.last = [p \in Range(TmPeriods) |->
                                  IF p \in DOMAIN @ THEN @[p] ELSE s.now]]
      r == send_telemetry_loop(Log(s0, "sched", s.client), 1, s.now, out)
  IN IF r.exc THEN Log([r EXCEPT !.exc = FALSE], "err_telemetry", 0) ELSE r

\* YAMCS_link.send_telemetry: every exception is caught and logged here
send_telemetry(s, out) ==
  LET r == send_telemetry_loop(Log(s, "sched", s.client), 1, s.now, out)
  IN IF r.exc THEN Log([r EXCEPT !.exc = FALSE], "err_telemetry", 0) ELSE r

----------------------------------------------------------------------------
(* Disconnect notification, close and shutdown *)

\* the loop of _recursively_call_on_disconnect over obj.children from index i;
\* s.bad holds the components whose on_disconnect raises: nothing catches it,
\* the exception leaves the loop and every enclosing call of the walk
RECURSIVE _recursively_call_on_disconnect_from(_, _, _)
_recursively_call_on_disconnect_from(s, obj, i) ==
  IF s.exc \/ i > Len(children[obj]) THEN s
  ELSE LET yamcs_child == children[obj][i]
           s1 == IF yamcs_child \in Containers
                 THEN _recursively_call_on_disconnect_from(s, yamcs_child, 1)
                 ELSE s
       IN IF s1.exc THEN s1
          ELSE IF yamcs_child \in s1.bad
               THEN Raise(Log(Log(s1, "hook", yamcs_child), "hook_raise", yamcs_child))
               ELSE _recursively_call_on_disconnect_from(Log(s1, "hook", yamcs_child),
                                                         obj, i + 1)

\* a version that does not dive into containers
RECURSIVE on_disconnect_flat_from(_, _, _)
on_disconnect_flat_from(s, obj, i) ==
  IF i > Len(children[obj]) THEN s
  ELSE on_disconnect_flat_from(Log(s, "hook", children[obj][i]), obj, i + 1)

on_disconnect_flat(s, obj) == on_disconnect_flat_from(s, obj, 1)

\* YAMCS_link._recursively_call_on_disconnect
_recursively_call_on_disconnect(s, obj) ==
  _recursively_call_on_disconnect_from(s, obj, 1)

\* a version that notifies the components outside the test of the client
close_always_notifies(s) ==
  LET s3 == IF s.client # None
            THEN [sock_close([s EXCEPT !.mon = list_remove(@, s.client)], s.client)
                    EXCEPT !.client = None]
            ELSE s
  IN _recursively_call_on_disconnect(s3, Root)

\* a version that forgets the last-send times with the connection
close_resets_schedule(s) ==
  IF s.client # None
  THEN IF s.client \notin Range(s.mon) THEN Raise(s)
       ELSE LET s1 == [s EXCEPT !.mon = list_remove(@, s.client)]
                s2 == sock_close(s1, s.client)
                s3 == [s2 EXCEPT !.client = None, !.last = <<>>]
            IN _recursively_call_on_disconnect(s3, Root)
  ELSE s

\* YAMCS_link._close_tcp_connection
_close_tcp_connection(s) ==
  IF s.client # None
  THEN IF s.client \notin Range(s.mon) THEN Raise(s)  \* list.remove: ValueError
       ELSE LET s1 == [s EXCEPT !.mon = list_remove(@, s.client)]
                s2 == sock_close(s1, s.client)
                s3 == [s2 EXCEPT !.client = None]
            IN _recursively_call_on_disconnect(s3, Root)
  ELSE s

\* a version that closes the UDP socket before the listening socket
shutdown_udp_first(s) ==
  LET s1 == _close_tcp_connection(s)
  IN IF s1.exc THEN s1 ELSE sock_close(sock_close(s1, UdpSock), ServerSock)

\* a version that leaves the client connection open
shutdown_keeps_client(s) == sock_close(sock_close(s, ServerSock), UdpSock)

\* YAMCS_link._shutdown
_shutdown(s) ==
  LET s1 == _close_tcp_connection(s)
  IN IF s1.exc THEN s1
     ELSE LET s2 == sock_close(s1, ServerSock)
          IN sock_close(s2, UdpSock)

----------------------------------------------------------------------------
(* The service step *)

\* what select() reports readable: the listening socket when a connection
\* request waits, an accepted socket when its recv() would not block
IsReadable(s, k) ==
  IF k = ServerSock THEN s.backlog > 0
  ELSE s.rx[k] \in {"data", "eof", "err"}

\* select.select(self.monitored_sock, [], [], 0): the readable sockets in the
\* order of the list
RECURSIVE select(_, _)
select(s, l) ==
  IF l = <<>> THEN <<>>
  ELSE (IF IsReadable(s, Head(l)) THEN <<Head(l)>> ELSE <<>>) \o select(s, Tail(l))

\* service(), lines 192-197: the listening socket is readable
service_accept(s, inp) ==
  IF inp.acceptFails THEN Raise(Log(s, "accept_fail", 0))
  ELSE LET conn == ConnSock(s.nacc + 1)
       IN Log([s EXCEPT !.nacc = @ + 1, !.backlog = @ - 1,
                        !.rx = [@ EXCEPT ![conn] = "idle"],
                        !.client = conn,
                        !.mon = Append(@, conn)],
              "accept", conn)

\* a version that reads the client socket again after a command
service_recv_drains(s, inp) ==
  LET c == s.client
  IN IF s.rx[c] = "data"
     THEN Log(handle_command(Log([s EXCEPT !.rx = [@ EXCEPT ![c] = "idle"],
                                           !.data = inp.data],
                                 "recv", Len(inp.data)),
                             inp.data, inp.handlerRaises),
              "recv", 0)
     ELSE Raise(Log(s, "recv_fail", c))

\* service(), lines 199-206: the client socket is readable
service_recv(s, inp) ==
  LET c == s.client
  IN CASE s.rx[c] = "data" ->
            handle_command(Log([s EXCEPT !.rx = [@ EXCEPT ![c] = "idle"],
                                         !.data = inp.data],
                               "recv", Len(inp.data)),
                           inp.data, inp.handlerRaises)
       [] s.rx[c] = "eof" -> _close_tcp_connection(Log(s, "recv", 0))
       [] OTHER -> Raise(Log(s, "recv_fail", c))

\* service(), lines 190-206: the loop over the readable sockets, from index i
RECURSIVE service_loop(_, _, _, _)
service_loop(s, readable, i, inp) ==
  IF s.exc \/ i > Len(readable) THEN s
  ELSE LET sock == readable[i]
       IN IF sock = ServerSock
          THEN service_loop(service_accept(s, inp), readable, i + 1, inp)
          ELSE IF sock = s.client
               THEN service_loop(service_recv(s, inp), readable, i + 1, inp)
               ELSE service_loop(s, readable, i + 1, inp)

\* a version of the loop that reads every readable accepted socket
RECURSIVE service_loop_reads_any(_, _, _, _)
service_loop_reads_any(s, readable, i, inp) ==
  IF s.exc \/ i > Len(readable) THEN s
  ELSE LET sock == readable[i]
       IN IF sock = ServerSock
          THEN service_loop_reads_any(service_accept(s, inp), readable, i + 1, inp)
          ELSE IF sock = s.client
               THEN service_loop_reads_any(service_recv(s, inp), readable, i + 1, inp)
               ELSE IF s.rx[sock] = "data"
                    THEN service_loop_reads_any(
                           handle_command(
                             Log([s EXCEPT !.rx = [@ EXCEPT ![sock] = "idle"],
                                           !.data = inp.data],
                                 "recv", Len(inp.data)),
                             inp.data, inp.handlerRaises),
                           readable, i + 1, inp)
                    ELSE service_loop_reads_any(s, readable, i + 1, inp)

service_reads_any_socket(s, inp) ==
  LET s0 == IF \E k \in Range(s.mon) : k \in s.closed
            THEN Raise(Log(s, "select_fail", s.client))
            ELSE Log(s, "select", s.client)
      s1 == service_loop_reads_any(s0, select(s0, s0.mon), 1, inp)
      s2 == IF s1.exc THEN s1
            ELSE IF s1.client # None THEN send_telemetry(s1, inp.tm) ELSE s1
  IN IF s2.exc
     THEN _close_tcp_connection(Log([s2 EXCEPT !.exc = FALSE], "err_service", 0))
     ELSE s2

\* a version that services telemetry whether or not a client is connected
service_telemetry_ungated(s, inp) == send_telemetry(s, inp.tm)

\* service(), lines 208-210
service_telemetry(s, inp) ==
  IF s.client # None THEN send_telemetry(s, inp.tm) ELSE s

\* a version of the except clause that only logs
service_except_log_only(s) ==
  IF s.exc THEN Log([s EXCEPT !.exc = FALSE], "err_service", 0) ELSE s

\* service(), lines 212-214: the except clause
service_except(s) ==
  IF s.exc
  THEN _close_tcp_connection(Log([s EXCEPT !.exc = FALSE], "err_service", 0))
  ELSE s

\* YAMCS_link.service
service(s, inp) ==
  LET s0 == IF \E k \in Range(s.mon) : k \in s.closed
            THEN Raise(Log(s, "select_fail", s.client))  \* fileno() of a closed socket
            ELSE Log(s, "select", s.client)
      s1 == service_loop(s0, select(s0, s0.mon), 1, inp)
      s2 == IF s1.exc THEN s1 ELSE service_telemetry(s1, inp)
  IN service_except(s2)

----------------------------------------------------------------------------
(* The registry: update_index over a component tree (src/yamcs_userlib.py) *)

\* Names are strings of letters, full names strings that also hold the
\* separator; a string is the sequence of its characters.
NoSeparator == <<>>
Separator == <<"-">>

\* a member found by dir(obj): a method tagged by @telemetry(period) or by
\* @telecommand
TM(name, period) == [name |-> name, kind |-> "TM", period |-> period]
TC(name) == [name |-> name, kind |-> "TC", period |-> 0]

\* the names given to YAMCS_object(name)
Names == {<<>>, <<"a">>, <<"b">>}
\* the tagged methods of one object, in the alphabetical order of dir()
MemberLists ==
  {<<>>,
   <<TM(<<"f">>, 1000)>>,
   <<TM(<<"f">>, 2000)>>,
   <<TC(<<"f">>)>>,
   <<TM(<<"f">>, 1000), TM(<<"g">>, 2000)>>,
   <<TM(<<"f">>, 2000), TC(<<"g">>)>>}
\* the registrations made by register_yamcs_child: object 1 is the root;
\* 2 and 3 are its children, or 2 its child and 3 the child of 2
Shapes ==
  {[n \in 1..3 |-> IF n = 1 THEN <<2, 3>> ELSE <<>>],
   [n \in 1..3 |-> IF n = 1 THEN <<2>> ELSE IF n = 2 THEN <<3>> ELSE <<>>]}
Trees ==
  [children : Shapes, yamcs_name : [1..3 -> Names],
   members : {m \in [1..3 -> MemberLists] : Len(m[1]) <= 1}]

NoTree == <<>>
NotBuilt == [built |-> FALSE, telemetry |-> <<>>, commands |-> <<>>, exc |-> FALSE]

\* position of the period among the keys of self.telemetry, 0 when absent
KeyIndex(telemetry, period) ==
  IF \E i \in 1..Len(telemetry) : telemetry[i].period = period
  THEN CHOOSE i \in 1..Len(telemetry) : telemetry[i].period = period
  ELSE 0

\* YAMCS_object._register_telemetry: self.telemetry is a defaultdict(list)
\* that keeps its keys in insertion order; reading self.telemetry[period]
\* inserts the key
_register_telemetry(b, obj, m, fullname) ==
  LET telemetry == IF KeyIndex(b.telemetry, m.period) = 0
                   THEN Append(b.telemetry, [period |-> m.period, list |-> <<>>])
                   ELSE b.telemetry
      k == KeyIndex(telemetry, m.period)
  IN IF \E i \in 1..Len(telemetry[k].list) : telemetry[k].list[i].fullname = fullname
     THEN [b EXCEPT !.telemetry = telemetry, !.exc = TRUE]
     ELSE [b EXCEPT !.telemetry =
             [telemetry EXCEPT ![k].list =
                Append(@, [fullname |-> fullname, obj |-> obj, method |-> m.name])]]

\* YAMCS_object._register_command
_register_command(b, obj, m, fullname) ==
  IF \E i \in 1..Len(b.commands) : b.commands[i].fullname = fullname
  THEN [b EXCEPT !.exc = TRUE]
  ELSE [b EXCEPT !.commands =
          Append(@, [fullname |-> fullname, obj |-> obj, method |-> m.name])]

RECURSIVE _build_index(_, _, _, _)
RECURSIVE build_index_children(_, _, _, _, _)
RECURSIVE build_index_members(_, _, _, _, _)

\* _build_index, lines 88-89: the loop over obj.children from position i
build_index_children(b, tr, obj, i, prefix) ==
  IF b.exc \/ i > Len(tr.children[obj]) THEN b
  ELSE build_index_children(
         _build_index(b, tr, tr.children[obj][i],
                      prefix \o tr.yamcs_name[obj] \o Separator),
         tr, obj, i + 1, prefix)

\* _build_index, lines 97-102: the loop over dir(obj) from position j
build_index_members(b, tr, obj, j, prefix) ==
  IF b.exc \/ j > Len(tr.members[obj]) THEN b
  ELSE LET m == tr.members[obj][j]
           fullname == prefix \o tr.yamcs_name[obj] \o Separator \o m.name
       IN build_index_members(
            IF m.kind = "TM" THEN _register_telemetry(b, obj, m, fullname)
            ELSE _register_command(b, obj, m, fullname),
            tr, obj, j + 1, prefix)

\* YAMCS_object._build_index: the children first, then the object's own members
_build_index(b, tr, obj, prefix) ==
  build_index_members(build_index_children(b, tr, obj, 1, prefix), tr, obj, 1, prefix)

\* a version that goes on from the collections of the build before
update_index_merges(ix, tr) ==
  _build_index([ix EXCEPT !.built = TRUE, !.exc = FALSE], tr, 1, <<>>)

\* YAMCS_object.update_index: both collections are emptied, then rebuilt from
\* the object itself; an exception leaves what was registered before it
update_index(ix, tr) ==
  _build_index([ix EXCEPT !.built = TRUE, !.telemetry = <<>>, !.commands = <<>>,
                          !.exc = FALSE],
               tr, 1, <<>>)

\* YAMCS_object.get_tm_periods: the keys of self.telemetry
get_tm_periods(ix) == [i \in 1..Len(ix.telemetry) |-> ix.telemetry[i].period]

\* a version of get_tm_def that lists the groups by increasing period
RECURSIVE SortByPeriod(_)
SortByPeriod(q) ==
  IF q = <<>> THEN <<>>
  ELSE LET k == CHOOSE k \in 1..Len(q) : \A j \in 1..Len(q) : q[k].period <= q[j].period
       IN <<q[k]>> \o SortByPeriod([j \in 1..(Len(q) - 1) |-> IF j < k THEN q[j] ELSE q[j + 1]])

get_tm_def_sorted(ix) ==
  SortByPeriod([i \in 1..Len(ix.telemetry) |->
     [period |-> ix.telemetry[i].period,
      names |-> [j \in 1..Len(ix.telemetry[i].list) |-> ix.telemetry[i].list[j].fullname]]])

\* YAMCS_object.get_tm_def: a dict filled in the order of self.telemetry.items()
get_tm_def(ix) ==
  [i \in 1..Len(ix.telemetry) |->
     [period |-> ix.telemetry[i].period,
      names |-> [j \in 1..Len(ix.telemetry[i].list) |-> ix.telemetry[i].list[j].fullname]]]

\* a version of get_tc_def that numbers the commands from 1
get_tc_def_from_one(ix) ==
  [k \in 1..Len(ix.commands) |->
     [name |-> ix.commands[k].fullname, obj |-> ix.commands[k].obj,
      method |-> ix.commands[k].method]]

\* YAMCS_object.get_tc_def: tc_def[i] for i, cmd in enumerate(self.commands);
\* generate_mdb declares Command(name, opcode=i) for each key i
get_tc_def(ix) ==
  [k \in 0..(Len(ix.commands) - 1) |->
     [name |-> ix.commands[k + 1].fullname, obj |-> ix.commands[k + 1].obj,
      method |-> ix.commands[k + 1].method]]

\* YAMCS_object.call_tc, line 277: cmd = self.commands[opcode], a list indexed
\* from 0; cmd['bndmethod'] is the method that is invoked
call_tc_cmd(ix, opcode) == ix.commands[opcode + 1]

\* generate_mdb, lines 155-157: the id given to the TM packet of each period
mdb_packet_ids(ix) ==
  [i \in 1..Len(get_tm_def(ix)) |-> [period |-> get_tm_def(ix)[i].period, id |-> i - 1]]

\* send_telemetry, lines 223 and 234: the header sent for each period
tm_packet_headers(ix) ==
  [i \in 1..Len(get_tm_periods(ix)) |->
     [period |-> get_tm_periods(ix)[i], header |-> tm_header(i - 1)]]

----------------------------------------------------------------------------
(* The codec: SerDer (src/utils.py) *)

\* SerDer.PACK_FORMATS: the basic types of the model with their width in bytes
\* and whether they are signed
PACK_FORMATS ==
  [t \in {"U8", "U16", "I8", "I16"} |->
     [width |-> IF t \in {"U8", "I8"} THEN 1 ELSE 2, signed |-> t \in {"I8", "I16"}]]

\* STRING_TYPE_REGEX: the fixed-size string types of the model and their length
STRING_TYPES == [t \in {"string2", "string3"} |-> IF t = "string2" THEN 2 ELSE 3]

\* bytes and characters: a str is the sequence of its characters, each one
\* ASCII character (its UTF-8 encoding is one byte below 128) or NUL; in a
\* received buffer the byte 255 stands for bytes that are not valid UTF-8
Utf8Valid(b) == \A i \in 1..Len(b) : b[i] < 128

NoSerDer == [built |-> FALSE, fields |-> <<>>, minsize |-> 0, exc |-> "none"]
\* the last call of the codec: call is "init" (SerDer(fields)), "register"
\* (the SerDer built for a member declared with the type declared),
\* "serialise" or "deserialise"; exc is the exception it raised or "none";
\* values, encoded, ser_exc are the arguments, the result and the exception of
\* the serialise call whose result is being decoded
NoCall ==
  [call |-> "none", declared |-> "", values |-> <<>>, encoded |-> <<>>,
   ser_exc |-> "no call", buf |-> <<>>, exact |-> FALSE, decoded |-> <<>>,
   exc |-> "none"]

\* the width struct gives to a field
FieldWidth(f) ==
  IF f.type \in DOMAIN PACK_FORMATS THEN PACK_FORMATS[f.type].width
  ELSE STRING_TYPES[f.type]

\* SerDer.__init__: KeyError for a type that is neither basic nor a string,
\* else the format and struct.calcsize of it
SerDer_init(fields) ==
  IF \E i \in 1..Len(fields) :
       fields[i].type \notin DOMAIN PACK_FORMATS \cup DOMAIN STRING_TYPES
  THEN [NoSerDer EXCEPT !.exc = "KeyError"]
  ELSE [built |-> TRUE, fields |-> fields,
        minsize |-> SumSeq([i \in 1..Len(fields) |-> FieldWidth(fields[i])]),
        exc |-> "none"]

\* str_bytes.ljust(length, b'\0')
ljust(b, n) == b \o Zeros(n - Len(b))

\* a version of the string branch that lets a value fill the whole field
encode_string_fills_field(v, n) ==
  IF Len(v) > n THEN [exc |-> "ValueError", bytes |-> <<>>]
  ELSE [exc |-> "none", bytes |-> ljust(v, n)]

\* serialise, lines 98-112: the string branch; v is the value and, its
\* characters being ASCII, also value.encode('utf-8')
encode_string(v, n) ==
  IF Len(v) >= n THEN [exc |-> "ValueError", bytes |-> <<>>]
  ELSE [exc |-> "none", bytes |-> ljust(v, n)]

\* struct.pack of one integer: struct.error when it does not fit the format
pack_int(v, fmt) ==
  LET lo == IF fmt.signed THEN -(256 ^ fmt.width \div 2) ELSE 0
      hi == IF fmt.signed THEN 256 ^ fmt.width \div 2 - 1 ELSE 256 ^ fmt.width - 1
  IN IF v < lo \/ v > hi THEN [exc |-> "struct.error", bytes |-> <<>>]
     ELSE [exc |-> "none",
           bytes |-> pack_unsigned((v + 256 ^ fmt.width) % 256 ^ fmt.width, fmt.width)]

\* serialise, lines 93-112: the loop over zip(fields, values) from position i;
\* it raises at the first string that is too long
RECURSIVE serialise_strings(_, _, _)
serialise_strings(fields, values, i) ==
  IF i > Len(fields) THEN "none"
  ELSE IF fields[i].type \notin DOMAIN PACK_FORMATS
          /\ encode_string(values[i], STRING_TYPES[fields[i].type]).exc # "none"
       THEN "ValueError"
       ELSE serialise_strings(fields, values, i + 1)

\* serialise, line 114: struct.pack of the processed values from position i
RECURSIVE struct_pack(_, _, _)
struct_pack(fields, values, i) ==
  IF i > Len(fields) THEN [exc |-> "none", bytes |-> <<>>]
  ELSE LET one == IF fields[i].type \in DOMAIN PACK_FORMATS
                  THEN pack_int(values[i], PACK_FORMATS[fields[i].type])
                  ELSE encode_string(values[i], STRING_TYPES[fields[i].type])
           rest == struct_pack(fields, values, i + 1)
       IN IF one.exc # "none" THEN one
          ELSE IF rest.exc # "none" THEN rest
          ELSE [exc |-> "none", bytes |-> one.bytes \o rest.bytes]

\* SerDer.serialise
SerDer_serialise(sd, values) ==
  IF Len(sd.fields) # Len(values) THEN [exc |-> "ValueError", bytes |-> <<>>]
  ELSE IF serialise_strings(sd.fields, values, 1) # "none"
       THEN [exc |-> "ValueError", bytes |-> <<>>]
       ELSE struct_pack(sd.fields, values, 1)

\* a version that keeps the padding
strip_padding_keeps_all(b) == b

\* unpacked[index].split(b'\0', 1)[0]
strip_padding(b) ==
  IF \E i \in 1..Len(b) : b[i] = 0
  THEN SubSeq(b, 1, (CHOOSE i \in 1..Len(b) : b[i] = 0 /\ \A j \in 1..(i - 1) : b[j] # 0) - 1)
  ELSE b

\* struct.unpack of one integer
unpack_int(b, fmt) ==
  LET u == unpack_unsigned(b)
  IN IF fmt.signed /\ u >= 256 ^ fmt.width \div 2 THEN u - 256 ^ fmt.width ELSE u

\* deserialise, lines 137-143: the loop over the fields from position i; b
\* holds the bytes of the fields from i on
RECURSIVE deserialise_fields(_, _, _)
deserialise_fields(fields, b, i) ==
  IF i > Len(fields) THEN [exc |-> "none", result |-> <<>>]
  ELSE LET f == fields[i]
           w == FieldWidth(f)
           raw == SubSeq(b, 1, w)
           rest == deserialise_fields(fields, SubSeq(b, w + 1, Len(b)), i + 1)
       IN IF f.type \in DOMAIN PACK_FORMATS
          THEN IF rest.exc # "none" THEN rest
               ELSE [exc |-> "none",
                     result |-> (f.name :> unpack_int(raw, PACK_FORMATS[f.type]))
                                @@ rest.result]
          ELSE IF ~Utf8Valid(strip_padding(raw))
               THEN [exc |-> "UnicodeDecodeError", result |-> <<>>]
               ELSE IF rest.exc # "none" THEN rest
               ELSE [exc |-> "none",
                     result |-> (f.name :> strip_padding(raw)) @@ rest.result]

\* a version that always cuts the buffer to minsize
unpack_input_always_cut(byte_stream, minsize, exact_length) ==
  SubSeq(byte_stream, 1, minsize)

\* deserialise, line 135: byte_stream if exact_length else byte_stream[:minsize]
unpack_input(byte_stream, minsize, exact_length) ==
  IF exact_length \/ Len(byte_stream) <= minsize THEN byte_stream
  ELSE SubSeq(byte_stream, 1, minsize)

\* SerDer.deserialise: struct.unpack raises struct.error unless its input has
\* exactly calcsize bytes
SerDer_deserialise(sd, byte_stream, exact_length) ==
  LET b == unpack_input(byte_stream, sd.minsize, exact_length)
  IN IF Len(b) # sd.minsize THEN [exc |-> "struct.error", result |-> <<>>]
     ELSE deserialise_fields(sd.fields, b, 1)

\* YAMCS_object._get_potential_enum_repr_type with ENUM_REPR_TYPE = 'U8'
_get_potential_enum_repr_type(typ) ==
  IF typ \in DOMAIN PACK_FORMATS THEN typ ELSE "U8"

\* the parent of obj in the tree, None when it has not been registered
parent(tr, obj) ==
  IF \E p \in DOMAIN tr.children : obj \in Range(tr.children[p])
  THEN CHOOSE p \in DOMAIN tr.children : obj \in Range(tr.children[p])
  ELSE None

----------------------------------------------------------------------------
(* Events: the event decorator, send_event up the tree, send_event of the link *)

\* the object that is the YAMCS_link; every other object is a YAMCS_object
\* that does not override send_event
LinkObj == 1

\* the values of EventSeverity
EventSeverity == {0, 1, 2, 3, 5, 6, 7}

\* name.encode('utf-8') of a name made of the letters a and b
NameBytes(name) == [i \in 1..Len(name) |-> IF name[i] = "a" THEN 97 ELSE 98]

\* the last call of a method tagged @event; none yet
NoEvent == [emitter |-> None, severity |-> 0, message |-> <<>>]

\* a header that carries the packet type of telemetry
event_header_as_tm ==
  pack_unsigned(TM_PACKETTYPE_VAL, PacketTypeBytes) \o pack_unsigned(0, PacketIdBytes)

\* the fields PacketType and PacketID of an event packet (lines 305-306)
event_header ==
  pack_unsigned(EVENTS_PACKETTYPE_VAL, PacketTypeBytes) \o pack_unsigned(0, PacketIdBytes)

\* event_serder.serialise([EVENTS_PACKETTYPE_VAL, 0, severity.value, source, message])
event_serialise(severity, source, message) ==
  LET src == encode_string(source, EVENT_SOURCESTR_SIZE)
      msg == encode_string(message, EVENT_MSG_SIZE)
  IN IF src.exc # "none" THEN src
     ELSE IF msg.exc # "none" THEN msg
     ELSE [exc |-> "none",
           bytes |-> event_header \o pack_unsigned(severity, 1) \o src.bytes \o msg.bytes]

\* YAMCS_link.send_event: serialise raises ValueError on a string that does not
\* fit, sendto raises OSError on a closed socket, nothing catches either
link_send_event(s, severity, source, message) ==
  LET r == event_serialise(severity, source, message)
      s1 == Log(s, "send_event", LinkObj)
  IN IF r.exc # "none" THEN Raise(Log(s1, "ValueError", LinkObj))
     ELSE IF UdpSock \in s.closed THEN Raise(Log(s1, "OSError", LinkObj))
     ELSE Log([s1 EXCEPT !.udp = Append(@, r.bytes)], "sendto", LinkObj)

\* a root that lets the event go
send_event_no_parent_ignored(s, obj) == s

\* YAMCS_object.send_event, lines 294-295, on an object that has no parent
send_event_no_parent(s, obj) == Raise(Log(s, "NotImplementedError", obj))

\* obj.send_event(severity, source, message): the override of the link, or
\* YAMCS_object.send_event, which passes the event to the parent
RECURSIVE send_event(_, _, _, _, _, _)
send_event(s, tr, obj, severity, source, message) ==
  IF obj = LinkObj THEN link_send_event(s, severity, source, message)
  ELSE IF parent(tr, obj) # None
       THEN send_event(Log(s, "send_event", obj), tr, parent(tr, obj), severity, source, message)
       ELSE send_event_no_parent(Log(s, "send_event", obj), obj)

\* the wrapper of the event decorator around a method of obj that returned
\* message: self.parent.send_event(severity, self.yamcs_name, message); on an
\* object without parent, None has no send_event (AttributeError)
event(s, tr, obj, severity, message) ==
  IF parent(tr, obj) = None THEN Raise(Log(s, "AttributeError", obj))
  ELSE send_event(s, tr, parent(tr, obj), severity, NameBytes(tr.yamcs_name[obj]), message)

----------------------------------------------------------------------------
(* Initial state and actions *)

NothingSent == [i \in 1..Len(TmPeriods) |-> [n |-> 0, at |-> -1]]

\* the state after __init__ and update_index(): both sockets open, the
\* listening socket monitored, no client, no group sent yet
InitLink ==
  /\ tcp_client_socket = None
  /\ monitored_sock = <<ServerSock>>
  /\ closed = {}
  /\ nacc = 0
  /\ backlog = 0
  /\ rx = [c \in ConnSocks |-> "none"]
  /\ last_tm_send_time = <<>>
  /\ now = StartTime
  /\ trace = <<>>
  /\ rx_data = <<>>
  /\ op = "init"
  /\ raised = FALSE
  /\ tc_calls = <<>>
  /\ udp_out = <<>>
  /\ tm_sent = NothingSent
  /\ serder = NoSerDer
  /\ codec = NoCall
  /\ created = {ServerSock, UdpSock}
  /\ emitted = NoEvent

\* the link is studied with the registry fixed by the definitions above
Init ==
  /\ InitLink
  /\ tree = NoTree
  /\ index = NotBuilt

EnvStep ==
  /\ trace' = <<>>
  /\ rx_data' = <<>>
  /\ op' = "env"
  /\ raised' = FALSE
  /\ tc_calls' = <<>>
  /\ udp_out' = <<>>
  /\ UNCHANGED <<tm_sent, tree, index, serder, codec, created, emitted>>

\* a peer asks for a connection
ConnectRequest ==
  /\ ServerSock \notin closed
  /\ backlog < ListenBacklog
  /\ nacc + backlog < MaxConn
  /\ backlog' = backlog + 1
  /\ EnvStep
  /\ UNCHANGED <<tcp_client_socket, monitored_sock, closed, nacc, rx,
                 last_tm_send_time, now>>

\* the peer of an accepted connection writes a buffer, closes, or resets
PeerEvent ==
  /\ \E c \in ConnSocks, e \in {"data", "eof", "err"} :
       /\ rx[c] = "idle"
       /\ rx' = [rx EXCEPT ![c] = e]
  /\ EnvStep
  /\ UNCHANGED <<tcp_client_socket, monitored_sock, closed, nacc, backlog,
                 last_tm_send_time, now>>

\* time passes
Tick ==
  /\ now + TickMs <= MaxTime
  /\ now' = now + TickMs
  /\ EnvStep
  /\ UNCHANGED <<tcp_client_socket, monitored_sock, closed, nacc, backlog, rx,
                 last_tm_send_time>>

\* the inputs one service step can meet in the current state
Inputs ==
  [acceptFails : IF backlog > 0 THEN BOOLEAN ELSE {FALSE},
   data : IF tcp_client_socket # None /\ rx[tcp_client_socket] = "data"
          THEN Buffers ELSE {<<>>},
   handlerRaises : IF tcp_client_socket # None /\ rx[tcp_client_socket] = "data"
                   THEN BOOLEAN ELSE {FALSE},
   tm : IF tcp_client_socket # None \/ backlog > 0 THEN TmOutcomes ELSE {TmAllOk}]

\* the driver loop calls service()
Service ==
  /\ \E inp \in Inputs : Unpack(service(Cur, inp))
  /\ op' = "service"
  /\ UNCHANGED <<tm_sent, tree, index, serder, codec, created, emitted>>

\* _shutdown() is called: by the signal handler, or by the driver's finally
Shutdown ==
  /\ Unpack(_shutdown(Cur))
  /\ op' = "shutdown"
  /\ UNCHANGED <<tm_sent, tree, index, serder, codec, created, emitted>>

Next == ConnectRequest \/ PeerEvent \/ Tick \/ Service \/ Shutdown

Spec == Init /\ [][Next]_vars

----------------------------------------------------------------------------
(* The link with components whose on_disconnect may raise *)

\* the components whose hook raises in one call of service() or _shutdown():
\* none, the component inside the container, or the last one of the walk
RaisingHooks == {{}, {3}, {4}}

ServiceHooks ==
  /\ \E inp \in Inputs, bad \in RaisingHooks :
       Unpack(service([Cur EXCEPT !.bad = bad], inp))
  /\ op' = "service"
  /\ UNCHANGED <<tm_sent, tree, index, serder, codec, created, emitted>>

ShutdownHooks ==
  /\ \E bad \in RaisingHooks : Unpack(_shutdown([Cur EXCEPT !.bad = bad]))
  /\ op' = "shutdown"
  /\ UNCHANGED <<tm_sent, tree, index, serder, codec, created, emitted>>

NextHooks == ConnectRequest \/ PeerEvent \/ Tick \/ ServiceHooks \/ ShutdownHooks

SpecHooks == Init /\ [][NextHooks]_vars

----------------------------------------------------------------------------
(* The link with the datagrams of each group counted over the whole run *)

\* the number of datagrams in udp whose header is that of group i
CountGroup(udp, i) ==
  Cardinality({k \in 1..Len(udp) :
                 SubSeq(udp[k], 1, PacketTypeBytes + PacketIdBytes) = tm_header(i - 1)})

\* the peer of an accepted connection closes or resets it
PeerCloses ==
  /\ \E c \in ConnSocks, e \in {"eof", "err"} :
       /\ rx[c] = "idle"
       /\ rx' = [rx EXCEPT ![c] = e]
  /\ EnvStep
  /\ UNCHANGED <<tcp_client_socket, monitored_sock, closed, nacc, backlog,
                 last_tm_send_time, now>>

\* service(), with the number of datagrams of each group and the clock of
\* the last one kept over the steps
ServiceCounted ==
  /\ \E inp \in Inputs :
       LET s == service(Cur, inp)
       IN /\ Unpack(s)
          /\ tm_sent' = [i \in 1..Len(TmPeriods) |->
                           IF CountGroup(s.udp, i) > 0
                           THEN [n |-> tm_sent[i].n + CountGroup(s.udp, i),
                                 at |-> s.now]
                           ELSE tm_sent[i]]
  /\ op' = "service"
  /\ UNCHANGED <<tree, index, serder, codec, created, emitted>>

NextSpacing == ConnectRequest \/ PeerCloses \/ Tick \/ ServiceCounted \/ Shutdown

SpecSpacing == Init /\ [][NextSpacing]_vars

----------------------------------------------------------------------------
(* handle_command on its own, called with a buffer while a client is connected *)

\* the state in which the first connection has been accepted
InitConnected ==
  /\ tcp_client_socket = ConnSock(1)
  /\ monitored_sock = <<ServerSock, ConnSock(1)>>
  /\ closed = {}
  /\ nacc = 1
  /\ backlog = 0
  /\ rx = [c \in ConnSocks |-> IF c = ConnSock(1) THEN "idle" ELSE "none"]
  /\ trace = <<>>
  /\ rx_data = <<>>
  /\ op = "init"
  /\ raised = FALSE
  /\ tc_calls = <<>>
  /\ udp_out = <<>>
  /\ tm_sent = NothingSent
  /\ tree = NoTree
  /\ index = NotBuilt
  /\ serder = NoSerDer
  /\ codec = NoCall
  /\ created = {ServerSock, UdpSock}
  /\ emitted = NoEvent

\* the groups have not been evaluated yet, or were last sent at some time
InitCmd ==
  /\ InitConnected
  /\ now \in {StartTime, MaxTime}
  /\ last_tm_send_time \in
       {<<>>} \cup [Range(TmPeriods) -> {0, StartTime, StartTime + TickMs}]

\* handle_command(data) is called
HandleCommand ==
  /\ \E data \in Buffers, handlerRaises \in BOOLEAN :
       Unpack([handle_command(Cur, data, handlerRaises) EXCEPT !.data = data])
  /\ op' = "handle_command"
  /\ UNCHANGED <<tm_sent, tree, index, serder, codec, created, emitted>>

NextCmd == HandleCommand

SpecCmd == InitCmd /\ [][NextCmd]_vars

----------------------------------------------------------------------------
(* The driver loop under a simulated clock that starts at 0: service(), then
   time.sleep(0.1), with a client connected and every producer working *)

SleepMs == 100       \* time.sleep(0.1)

InitSched ==
  /\ InitConnected
  /\ now = 0
  /\ last_tm_send_time = <<>>

\* one service() of the loop: the client may have written a buffer
DriverService ==
  /\ op \in {"init", "env"}
  /\ now <= SimDuration
  /\ \E inp \in Inputs :
       /\ ~inp.acceptFails
       /\ inp.tm = TmAllOk
       /\ LET s == service(Cur, inp)
          IN /\ Unpack(s)
             /\ tm_sent' = [i \in 1..Len(TmPeriods) |->
                              IF CountGroup(s.udp, i) > 0
                              THEN [n |-> tm_sent[i].n + CountGroup(s.udp, i),
                                    at |-> s.now]
                              ELSE tm_sent[i]]
  /\ UNCHANGED <<tree, index, serder, codec, created, emitted>>
  /\ op' = "service"

\* time.sleep(0.1)
DriverSleep ==
  /\ op = "service"
  /\ now' = now + SleepMs
  /\ EnvStep
  /\ UNCHANGED <<tcp_client_socket, monitored_sock, closed, nacc, backlog, rx,
                 last_tm_send_time>>

\* the client writes a buffer while the loop sleeps
PeerWrites ==
  /\ op = "env"
  /\ tcp_client_socket # None
  /\ rx[tcp_client_socket] = "idle"
  /\ rx' = [rx EXCEPT ![tcp_client_socket] = "data"]
  /\ EnvStep
  /\ UNCHANGED <<tcp_client_socket, monitored_sock, closed, nacc, backlog,
                 last_tm_send_time, now>>

NextSched == DriverService \/ DriverSleep \/ PeerWrites

SpecSched == InitSched /\ [][NextSched]_vars

----------------------------------------------------------------------------
(* The driver loop with a client connected and a first group whose producer
   raises at every evaluation *)

\* the first point of the first group raises, the other groups work
FirstGroupFails ==
  [i \in 1..Len(TmPeriods) |->
     IF i = 1 THEN [kind |-> "enc", at |-> 1] ELSE [kind |-> "ok", at |-> 0]]

\* one service() of the loop
StarvedService ==
  /\ op \in {"init", "env"}
  /\ now <= SimDuration
  /\ \E inp \in {x \in Inputs : ~x.acceptFails /\ x.tm = FirstGroupFails} :
       LET s == service(Cur, inp)
       IN /\ Unpack(s)
          /\ tm_sent' = [i \in 1..Len(TmPeriods) |->
                           IF CountGroup(s.udp, i) > 0
                           THEN [n |-> tm_sent[i].n + CountGroup(s.udp, i),
                                 at |-> s.now]
                           ELSE tm_sent[i]]
  /\ UNCHANGED <<tree, index, serder, codec, created, emitted>>
  /\ op' = "service"

NextStarve == DriverSleep \/ PeerWrites \/ StarvedService

\* the step of the loop that calls service(): a step of NextStarve is one of
\* these exactly when it is a StarvedService step, which is possible in every
\* state that satisfies the two guards
DriverCallsService ==
  /\ op \in {"init", "env"}
  /\ now <= SimDuration
  /\ op' = "service"

\* the loop keeps running: service() and sleep alternate until the end of the
\* run
SpecStarve ==
  InitSched /\ [][NextStarve]_vars
  /\ WF_op(DriverCallsService) /\ WF_vars(DriverSleep)

----------------------------------------------------------------------------
(* service() one statement at a time, with the signal handler running between
   any two of them. op names the statement executed last; trace keeps the
   events of the service step so far and of the handler. *)

\* between two calls of service()
AtRest == op \in {"init", "env", "service"}

\* the state in the middle of a service step
Mid == [Cur EXCEPT !.trace = trace, !.udp = udp_out]

\* lines 193-194: conn, addr = accept(); self.tcp_client_socket = conn
StmtAcceptAssign ==
  /\ AtRest
  /\ backlog > 0
  /\ ServerSock \notin closed
  /\ LET conn == ConnSock(nacc + 1)
     IN Unpack(Log([Cur EXCEPT !.nacc = @ + 1, !.backlog = @ - 1,
                               !.rx = [@ EXCEPT ![conn] = "idle"],
                               !.client = conn],
                   "accept", conn))
  /\ op' = "accept_assigned"
  /\ UNCHANGED <<tm_sent, tree, index, serder, codec, created, emitted>>

\* lines 195-196: setblocking(False); self.monitored_sock.append(client)
StmtAcceptAppend ==
  /\ op = "accept_assigned"
  /\ Unpack([Mid EXCEPT !.mon = Append(@, tcp_client_socket)])
  /\ op' = "loop_done"
  /\ UNCHANGED <<tm_sent, tree, index, serder, codec, created, emitted>>

\* lines 200-206 and 325-326: recv() returns no bytes, _close_tcp_connection
\* is entered and removes the client from monitored_sock
StmtCloseRemove ==
  /\ AtRest
  /\ tcp_client_socket # None
  /\ rx[tcp_client_socket] = "eof"
  /\ tcp_client_socket \in Range(monitored_sock)
  /\ \A k \in Range(monitored_sock) : k \notin closed
  /\ Unpack(Log([Cur EXCEPT !.mon = list_remove(@, tcp_client_socket)], "recv", 0))
  /\ op' = "close_removed"
  /\ UNCHANGED <<tm_sent, tree, index, serder, codec, created, emitted>>

\* line 327: self.tcp_client_socket.close()
StmtCloseSocket ==
  /\ op = "close_removed"
  /\ Unpack(sock_close(Mid, tcp_client_socket))
  /\ op' = "close_closed"
  /\ UNCHANGED <<tm_sent, tree, index, serder, codec, created, emitted>>

\* line 328: self.tcp_client_socket = None
StmtCloseClear ==
  /\ op = "close_closed"
  /\ Unpack([Mid EXCEPT !.client = None])
  /\ op' = "close_cleared"
  /\ UNCHANGED <<tm_sent, tree, index, serder, codec, created, emitted>>

\* line 331: self._recursively_call_on_disconnect(self)
StmtCloseHooks ==
  /\ op = "close_cleared"
  /\ Unpack(_recursively_call_on_disconnect(Mid, Root))
  /\ op' = "loop_done"
  /\ UNCHANGED <<tm_sent, tree, index, serder, codec, created, emitted>>

\* lines 209-210, after the loop over the readable sockets
StmtTelemetry ==
  /\ op = "loop_done"
  /\ Unpack(service_telemetry(Mid, [tm |-> TmAllOk]))
  /\ op' = "service"
  /\ UNCHANGED <<tm_sent, tree, index, serder, codec, created, emitted>>

\* _signal_handler: SIGINT or SIGTERM is delivered after the statement
\* executed last; the handler runs _shutdown() and sys.exit(0) in the main
\* thread
SignalHandler ==
  /\ op # "exit"
  /\ Unpack(_shutdown(Log(Mid, "signal", 0)))
  /\ op' = "exit"
  /\ UNCHANGED <<tm_sent, tree, index, serder, codec, created, emitted>>

\* the environment acts between two service steps
NextSignal ==
  \/ (AtRest /\ ConnectRequest) \/ (AtRest /\ PeerCloses) \/ (AtRest /\ Tick)
  \/ StmtAcceptAssign \/ StmtAcceptAppend
  \/ StmtCloseRemove \/ StmtCloseSocket \/ StmtCloseClear \/ StmtCloseHooks
  \/ StmtTelemetry
  \/ SignalHandler

SpecSignal == Init /\ [][NextSignal]_vars

----------------------------------------------------------------------------
(* update_index() applied to a component tree *)

InitIndex ==
  /\ InitLink
  /\ tree \in Trees
  /\ index = NotBuilt

\* update_index() is called: at start-up by generate_mdb, or again later
UpdateIndex ==
  /\ index' = update_index(index, tree)
  /\ op' = "update_index"
  /\ UNCHANGED <<tcp_client_socket, monitored_sock, closed, nacc, backlog, rx,
                 last_tm_send_time, now, trace, rx_data, raised, tc_calls,
                 udp_out, tm_sent, tree, serder, codec, created, emitted>>

NextIndex == UpdateIndex

SpecIndex == InitIndex /\ [][NextIndex]_vars

----------------------------------------------------------------------------
(* Children registered between two calls of update_index() *)

\* three objects have been constructed and none registered yet; objects 2 and
\* 3 have different names or the same name
InitRebuild ==
  /\ InitLink
  /\ tree \in {tr \in [children : {[n \in 1..3 |-> <<>>]},
                        yamcs_name : [1..3 -> Names],
                        members : {m \in [1..3 -> MemberLists] : Len(m[1]) <= 1}] :
                  /\ tr.yamcs_name[1] = <<>>
                  /\ tr.yamcs_name[2] = <<"a">>
                  /\ tr.yamcs_name[3] # <<>>}
  /\ index = NotBuilt

\* p.register_yamcs_child(c): c has no parent yet and is not above p
RegisterChild ==
  /\ \E p \in 1..3, c \in 2..3 :
       /\ p # c
       /\ parent(tree, c) = None
       /\ parent(tree, p) # c
       /\ tree' = [tree EXCEPT !.children[p] = Append(@, c)]
  /\ op' = "register_yamcs_child"
  /\ UNCHANGED <<tcp_client_socket, monitored_sock, closed, nacc, backlog, rx,
                 last_tm_send_time, now, trace, rx_data, raised, tc_calls,
                 udp_out, tm_sent, index, serder, codec, created, emitted>>

NextRebuild == RegisterChild \/ UpdateIndex

SpecRebuild == InitRebuild /\ [][NextRebuild]_vars

----------------------------------------------------------------------------
(* The codec on its own: SerDer objects built, then used to encode and decode *)

\* the types a field list is drawn from; "bool" is not a type of SerDer
FieldTypes == DOMAIN PACK_FORMATS \cup DOMAIN STRING_TYPES \cup {"bool"}

\* the types a member can be declared with: the basic types, a string, the
\* name of an enum the component declares, and a name that is none of these
DeclaredEnums == {"MyEnum"}
DeclaredTypes == {"U8", "U16", "string2", "MyEnum", "bool"}

FieldName(i) == "arg" \o ToString(i)

FieldLists ==
  UNION {{[i \in 1..n |-> [name |-> FieldName(i), type |-> ty[i]]] :
            ty \in [1..n -> FieldTypes]} : n \in 0..MaxFields}

\* the integers passed as values of a field: the limits of its type, their
\* neighbours outside, and 256 for a type of two bytes
IntValues(type) ==
  LET w == PACK_FORMATS[type].width
      lo == IF PACK_FORMATS[type].signed THEN -(256 ^ w \div 2) ELSE 0
      hi == IF PACK_FORMATS[type].signed THEN 256 ^ w \div 2 - 1 ELSE 256 ^ w - 1
  IN {lo - 1, lo, hi, hi + 1} \cup (IF w > 1 THEN {256} ELSE {})

\* the strings passed as values of a field of length n: "", "A", "AA", ... up
\* to n characters, and those shorter than n with one NUL in them
StrValues(n) ==
  {[i \in 1..k |-> 65] : k \in 0..n}
  \cup UNION {{[i \in 1..k |-> IF i = j THEN 0 ELSE 65] : j \in 1..k} : k \in 1..(n - 1)}

\* the value lists with one value of the right kind per field
RECURSIVE ValueLists(_)
ValueLists(fields) ==
  IF fields = <<>> THEN {<<>>}
  ELSE {<<x>> \o r :
          x \in (IF Head(fields).type \in DOMAIN PACK_FORMATS
                 THEN IntValues(Head(fields).type)
                 ELSE StrValues(STRING_TYPES[Head(fields).type])),
          r \in ValueLists(Tail(fields))}

\* the value lists with k values more than fields (k values less when negative)
ArityLists(fields, k) ==
  IF k = 0 THEN ValueLists(fields)
  ELSE IF k > 0 THEN {Append(v, 0) : v \in ValueLists(fields)}
  ELSE IF fields = <<>> THEN {}
  ELSE ValueLists(SubSeq(fields, 1, Len(fields) - 1))

\* the received buffers: one byte less than minsize to one byte more
ReceivedBuffers(minsize) ==
  UNION {[1..n -> {0, 65, 255}] : n \in {minsize - 1, minsize, minsize + 1} \cap Nat}

InitCodec == Init

\* SerDer(fields)
NewSerDer ==
  /\ ~serder.built
  /\ \E fields \in FieldLists :
       /\ serder' = SerDer_init(fields)
       /\ codec' = [NoCall EXCEPT !.call = "init", !.exc = SerDer_init(fields).exc]
  /\ op' = "SerDer"
  /\ UNCHANGED <<tcp_client_socket, monitored_sock, closed, nacc, backlog, rx,
                 last_tm_send_time, now, trace, rx_data, raised, tc_calls,
                 udp_out, tm_sent, tree, index, created, emitted>>

\* _register_telemetry, lines 119-125, for a member declared with the return
\* type typ (and _register_command, lines 153-160, for one argument of it)
RegisterMember ==
  /\ ~serder.built
  /\ \E typ \in DeclaredTypes :
       LET sd == SerDer_init(<<[name |-> FieldName(1),
                                type |-> _get_potential_enum_repr_type(typ)]>>)
       IN /\ serder' = sd
          /\ codec' = [NoCall EXCEPT !.call = "register", !.declared = typ,
                                     !.exc = sd.exc]
  /\ op' = "_register_telemetry"
  /\ UNCHANGED <<tcp_client_socket, monitored_sock, closed, nacc, backlog, rx,
                 last_tm_send_time, now, trace, rx_data, raised, tc_calls,
                 udp_out, tm_sent, tree, index, created, emitted>>

\* serder.serialise(values); serialise and deserialise assign no field of the
\* SerDer, so every call finds it as the constructor left it: the calls are
\* explored from there
Serialise ==
  /\ serder.built
  /\ codec.call \in {"init", "register"}
  /\ \E k \in {-1, 0, 1} : \E values \in ArityLists(serder.fields, k) :
       LET r == SerDer_serialise(serder, values)
       IN codec' = [NoCall EXCEPT !.call = "serialise", !.values = values,
                                  !.encoded = r.bytes, !.ser_exc = r.exc,
                                  !.exc = r.exc]
  /\ op' = "serialise"
  /\ UNCHANGED <<tcp_client_socket, monitored_sock, closed, nacc, backlog, rx,
                 last_tm_send_time, now, trace, rx_data, raised, tc_calls,
                 udp_out, tm_sent, tree, index, serder, created, emitted>>

\* serder.deserialise(byte_stream, exact_length) of what serialise has just
\* returned
DeserialiseEncoded ==
  /\ serder.built
  /\ codec.call = "serialise"
  /\ codec.exc = "none"
  /\ \E exact_length \in BOOLEAN :
       LET r == SerDer_deserialise(serder, codec.encoded, exact_length)
       IN codec' = [codec EXCEPT !.call = "deserialise", !.buf = codec.encoded,
                                 !.exact = exact_length, !.decoded = r.result,
                                 !.exc = r.exc]
  /\ op' = "deserialise"
  /\ UNCHANGED <<tcp_client_socket, monitored_sock, closed, nacc, backlog, rx,
                 last_tm_send_time, now, trace, rx_data, raised, tc_calls,
                 udp_out, tm_sent, tree, index, serder, created, emitted>>

\* serder.deserialise(byte_stream, exact_length) of a received buffer
Deserialise ==
  /\ serder.built
  /\ codec.call \in {"init", "register"}
  /\ serder.minsize <= MaxBufLen
  /\ \E exact_length \in BOOLEAN : \E byte_stream \in ReceivedBuffers(serder.minsize) :
       LET r == SerDer_deserialise(serder, byte_stream, exact_length)
       IN codec' = [NoCall EXCEPT !.call = "deserialise", !.buf = byte_stream,
                                  !.exact = exact_length, !.decoded = r.result,
                                  !.exc = r.exc]
  /\ op' = "deserialise"
  /\ UNCHANGED <<tcp_client_socket, monitored_sock, closed, nacc, backlog, rx,
                 last_tm_send_time, now, trace, rx_data, raised, tc_calls,
                 udp_out, tm_sent, tree, index, serder, created, emitted>>

NextCodec == NewSerDer \/ RegisterMember \/ Serialise \/ DeserialiseEncoded \/ Deserialise

SpecCodec == InitCodec /\ [][NextCodec]_vars

----------------------------------------------------------------------------
(* Events emitted by the components of a tree that is being assembled *)

\* a name as long as the source field of an event packet
LongName == [i \in 1..EVENT_SOURCESTR_SIZE |-> "a"]

\* the messages returned by the tagged method: empty, short, the longest that
\* fits the message field and the shortest that does not
Messages == {[i \in 1..n |-> 65] : n \in {0, 1, EVENT_MSG_SIZE - 1, EVENT_MSG_SIZE}}

\* the link and two components have been constructed, none registered yet
InitEvent ==
  /\ InitLink
  /\ tree \in [children : {[n \in 1..3 |-> <<>>]},
               yamcs_name : {nm \in [1..3 -> {<<>>, <<"a">>, <<"b">>, LongName}] :
                               nm[1] = <<>> /\ nm[2] # <<>> /\ nm[3] = <<"b">>},
               members : {[n \in 1..3 |-> <<>>]}]
  /\ index = NotBuilt

\* a method of obj tagged @event(severity) is called and returns message
EmitEvent ==
  /\ \E obj \in 1..3, severity \in EventSeverity, message \in Messages :
       /\ Unpack(event(Cur, tree, obj, severity, message))
       /\ emitted' = [emitter |-> obj, severity |-> severity, message |-> message]
  /\ op' = "event"
  /\ UNCHANGED <<tm_sent, tree, index, serder, codec, created>>

NextEvent == RegisterChild \/ EmitEvent

SpecEvent == InitEvent /\ [][NextEvent]_vars

----------------------------------------------------------------------------
(* Start-up: YAMCS_link(...), the components registered, then generate_mdb() *)

\* the program starts: no link yet, no socket; tree is the component tree the
\* program registers between the constructor and generate_mdb
InitStartup ==
  /\ tcp_client_socket = None
  /\ monitored_sock = <<>>
  /\ closed = {}
  /\ nacc = 0
  /\ backlog = 0
  /\ rx = [c \in ConnSocks |-> "none"]
  /\ last_tm_send_time = <<>>
  /\ now = StartTime
  /\ trace = <<>>
  /\ rx_data = <<>>
  /\ op = "start"
  /\ raised = FALSE
  /\ tc_calls = <<>>
  /\ udp_out = <<>>
  /\ tm_sent = NothingSent
  /\ serder = NoSerDer
  /\ codec = NoCall
  /\ created = {}
  /\ emitted = NoEvent
  /\ tree \in Trees
  /\ index = NotBuilt

\* YAMCS_link.__init__: the UDP socket is made (line 103), then
\* _start_tcp_server makes the listening socket and binds it; when bind or
\* listen fails it calls _shutdown() and sys.exit(1)
Construct ==
  /\ op = "start"
  /\ created' = {UdpSock, ServerSock}
  /\ \E bind_ok \in BOOLEAN :
       IF bind_ok
       THEN Unpack([Cur EXCEPT !.mon = <<ServerSock>>])
       ELSE Unpack(Raise(Log(_shutdown(Cur), "sys.exit", 1)))
  /\ op' = "__init__"
  /\ UNCHANGED <<tm_sent, tree, index, serder, codec, emitted>>

\* generate_mdb: update_index() (line 146) stands before the try, what it
\* raises goes to the caller; an error while the files are written is caught
\* (lines 174-177): _shutdown() and sys.exit(1)
GenerateMdb ==
  /\ op = "__init__"
  /\ ~raised
  /\ index' = update_index(index, tree)
  /\ \E mdb_ok \in BOOLEAN :
       IF update_index(index, tree).exc
       THEN Unpack(Raise(Log(Cur, "update_index_raise", 0)))
       ELSE IF mdb_ok THEN Unpack(Cur)
       ELSE Unpack(Raise(Log(_shutdown(Cur), "sys.exit", 1)))
  /\ op' = "generate_mdb"
  /\ UNCHANGED <<tm_sent, tree, serder, codec, created, emitted>>

NextStartup == Construct \/ GenerateMdb

SpecStartup == InitStartup /\ [][NextStartup]_vars

----------------------------------------------------------------------------
(* The older copy of the engine, src/yamcs_link/src/yamcs_link.py *)

\* YAMCS_link.close_tcp_connection of the older copy: the socket stays in
\* monitored_sock and no component is notified
close_tcp_connection(s) ==
  IF s.client # None
  THEN [sock_close(s, s.client) EXCEPT !.client = None]
  ELSE s

\* YAMCS_link.shutdown of the older copy
shutdown(s) ==
  LET s1 == close_tcp_connection(s)
      s2 == sock_close(s1, ServerSock)
  IN sock_close(s2, UdpSock)

\* service() of the older copy, lines 180-188: the client socket is readable
legacy_service_recv(s, inp) ==
  LET c == s.client
  IN CASE s.rx[c] = "data" ->
            handle_command(Log([s EXCEPT !.rx = [@ EXCEPT ![c] = "idle"],
                                         !.data = inp.data],
                               "recv", Len(inp.data)),
                           inp.data, inp.handlerRaises)
       [] s.rx[c] = "eof" -> close_tcp_connection(Log(s, "recv", 0))
       [] OTHER -> Raise(Log(s, "recv_fail", c))

\* service() of the older copy, lines 172-188: the loop over the readable sockets
RECURSIVE legacy_service_loop(_, _, _, _)
legacy_service_loop(s, readable, i, inp) ==
  IF s.exc \/ i > Len(readable) THEN s
  ELSE LET sock == readable[i]
       IN IF sock = ServerSock
          THEN legacy_service_loop(service_accept(s, inp), readable, i + 1, inp)
          ELSE IF sock = s.client
               THEN legacy_service_loop(legacy_service_recv(s, inp), readable, i + 1, inp)
               ELSE legacy_service_loop(s, readable, i + 1, inp)

\* YAMCS_link.service of the older copy
legacy_service(s, inp) ==
  LET s0 == IF \E k \in Range(s.mon) : k \in s.closed
            THEN Raise(Log(s, "select_fail", s.client))
            ELSE Log(s, "select", s.client)
      s1 == legacy_service_loop(s0, select(s0, s0.mon), 1, inp)
      s2 == IF s1.exc THEN s1 ELSE service_telemetry(s1, inp)
  IN IF s2.exc
     THEN close_tcp_connection(Log([s2 EXCEPT !.exc = FALSE], "err_service", 0))
     ELSE s2

ServiceLegacy ==
  /\ \E inp \in Inputs : Unpack(legacy_service(Cur, inp))
  /\ op' = "service"
  /\ UNCHANGED <<tm_sent, tree, index, serder, codec, created, emitted>>

ShutdownLegacy ==
  /\ Unpack(shutdown(Cur))
  /\ op' = "shutdown"
  /\ UNCHANGED <<tm_sent, tree, index, serder, codec, created, emitted>>

NextLegacy ==
  ConnectRequest \/ PeerEvent \/ Tick \/ ServiceLegacy \/ ShutdownLegacy

SpecLegacy == Init /\ [][NextLegacy]_vars

----------------------------------------------------------------------------
(* Reading the trace of the last operation *)

HasEv(tr, e) == \E i \in DOMAIN tr : tr[i].ev = e
HasEvArg(tr, e, a) == \E i \in DOMAIN tr : tr[i].ev = e /\ tr[i].arg = a

\* the arguments of the events named e, in order
RECURSIVE ArgsOf(_, _)
ArgsOf(tr, e) ==
  IF tr = <<>> THEN <<>>
  ELSE (IF Head(tr).ev = e THEN <<Head(tr).arg>> ELSE <<>>) \o ArgsOf(Tail(tr), e)

\* the components below obj, children before their parent, siblings in
\* registration order
RECURSIVE DepthFirst(_)
RECURSIVE DepthFirstList(_)
DepthFirstList(l) ==
  IF l = <<>> THEN <<>>
  ELSE DepthFirst(Head(l)) \o <<Head(l)>> \o DepthFirstList(Tail(l))
DepthFirst(obj) == DepthFirstList(children[obj])

Dropped(tr) ==
  \/ HasEv(tr, "drop_short") \/ HasEv(tr, "drop_start_word")
  \/ HasEv(tr, "drop_opcode") \/ HasEv(tr, "drop_incomplete")

\* the received buffer fails the header validation of the protocol
BadHeader(b) ==
  IF Len(b) < HeaderSize THEN TRUE
  ELSE \/ SubSeq(b, 1, StartWordBytes) # START_WORD
       \/ unpack_unsigned(SubSeq(b, StartWordBytes + 1, HeaderSize)) >= Len(commands)

\* the received buffer has a good header and too few argument bytes
ShortArgs(b) ==
  /\ ~BadHeader(b)
  /\ Len(b) - HeaderSize
       < commands[unpack_unsigned(SubSeq(b, StartWordBytes + 1, HeaderSize)) + 1]

----------------------------------------------------------------------------
(* Claims *)

\* C1: a telemetry datagram is sent only by a service step in which a client
\* is connected when the scheduler is evaluated; a step that ends with no
\* client (zero-length read, I/O error) sends none.
C1_TelemetryGatedOnConnected ==
  /\ HasEv(trace, "tm") =>
       /\ op = "service"
       /\ tcp_client_socket # None
       /\ \E i \in DOMAIN trace :
            /\ trace[i].ev = "sched" /\ trace[i].arg # None
            /\ \A j \in DOMAIN trace : trace[j].ev = "tm" => j > i
  /\ (tcp_client_socket = None \/ HasEvArg(trace, "recv", 0)
        \/ HasEv(trace, "recv_fail") \/ HasEv(trace, "accept_fail"))
       => ~HasEv(trace, "tm")

C1_Witness == op = "service" /\ HasEv(trace, "tm") /\ tcp_client_socket # None

\* C2: the polled sockets are the listening socket plus at most the current
\* client, and every accepted socket other than the current client is closed.
C2_OneClientNoLeak ==
  /\ Range(monitored_sock) \subseteq ({ServerSock, tcp_client_socket} \ {None})
  /\ \A c \in ConnSocks :
       (rx[c] # "none" /\ c # tcp_client_socket) => c \in closed

C4_IoErrorIsDisconnect ==
  (op = "service" /\ (HasEv(trace, "recv_fail") \/ HasEv(trace, "accept_fail"))) =>
     /\ ~raised
     /\ tcp_client_socket = None
     /\ LET c == trace[1].arg     \* the client when the step began
        IN c # None => (c \in closed /\ c \notin Range(monitored_sock))
     /\ ServerSock \notin closed /\ UdpSock \notin closed
     /\ ServerSock \in Range(monitored_sock)

C4_Witness ==
  /\ op = "service" /\ HasEv(trace, "recv_fail")
  /\ trace[1].arg # None /\ trace[1].arg \in closed

C6_KeepsServing ==
  [][(/\ op' = "service"
      /\ tcp_client_socket = None /\ backlog > 0 /\ ServerSock \notin closed
      /\ ~HasEv(trace', "accept_fail"))
       => (tcp_client_socket' # None /\ HasEv(trace', "accept"))]_vars

\* the close events of a shutdown from the state before it
ExpectedCloses ==
  (IF tcp_client_socket # None THEN <<tcp_client_socket>> ELSE <<>>)
    \o (IF ServerSock \notin closed THEN <<ServerSock>> ELSE <<>>)
    \o (IF UdpSock \notin closed THEN <<UdpSock>> ELSE <<>>)

C9_HeaderValidation ==
  (op = "service" /\ rx_data # <<>> /\ BadHeader(rx_data)) =>
     /\ ~HasEv(trace, "handler")
     /\ Dropped(trace)
     /\ ~HasEv(trace, "err_command")
     /\ Len(rx_data) < HeaderSize => ~HasEv(trace, "decode_header")

C9_Witness ==
  /\ op = "service" /\ Len(rx_data) >= HeaderSize
  /\ SubSeq(rx_data, 1, StartWordBytes) # START_WORD
  /\ HasEv(trace, "drop_start_word")

\* C10: a received buffer with a good start word and a valid opcode whose
\* remaining length is below the command's argument size is dropped as
\* incomplete: no argument decode is tried and no handler is invoked.
C10_ShortArgumentsDropped ==
  (op = "service" /\ rx_data # <<>> /\ ShortArgs(rx_data)) =>
     /\ HasEv(trace, "drop_incomplete")
     /\ ~HasEv(trace, "decode_args_fail")
     /\ ~HasEv(trace, "handler")
     /\ ~HasEv(trace, "err_command")

\* the buffer is exactly 1 byte short of the expected argument size
C10_Witness ==
  /\ op = "service" /\ rx_data # <<>> /\ ShortArgs(rx_data)
  /\ Len(rx_data) + 1 = HeaderSize
        + commands[unpack_unsigned(SubSeq(rx_data, StartWordBytes + 1, HeaderSize)) + 1]
  /\ HasEv(trace, "drop_incomplete")

----------------------------------------------------------------------------
(* Dispatch of a valid command *)

\* the buffer passes every check of handle_command
ValidCommand(b) ==
  /\ Len(b) >= HeaderSize
  /\ SubSeq(b, 1, StartWordBytes) = START_WORD
  /\ unpack_unsigned(SubSeq(b, StartWordBytes + 1, HeaderSize)) < Len(commands)
  /\ Len(b) - HeaderSize
       = commands[unpack_unsigned(SubSeq(b, StartWordBytes + 1, HeaderSize)) + 1]

\* the big-endian value of a byte string, most significant byte first
RECURSIVE BigEndian(_)
BigEndian(b) ==
  IF b = <<>> THEN 0 ELSE Head(b) * 256 ^ (Len(b) - 1) + BigEndian(Tail(b))

\* the keyword arguments the declared fields of command k give for buffer b:
\* field j lies after the header and after the fields before it
ExpectedKwargs(k, b) ==
  LET fs == command_args[k + 1]
      off(j) == HeaderSize + SumSeq([i \in 1..(j - 1) |-> fs[i].width])
  IN [a \in {fs[j].name : j \in 1..Len(fs)} |->
        LET j == CHOOSE j \in 1..Len(fs) : fs[j].name = a
        IN BigEndian(SubSeq(b, off(j) + 1, off(j) + fs[j].width))]

\* C11: a buffer that passes validation invokes exactly one handler exactly
\* once, the one at the index given by its opcode, with the values decoded
\* from the bytes after the header bound to the declared argument names
C11_ValidCommandDispatched ==
  (op = "service" /\ rx_data # <<>> /\ ValidCommand(rx_data)) =>
    LET k == unpack_unsigned(SubSeq(rx_data, StartWordBytes + 1, HeaderSize))
    IN /\ Len(tc_calls) = 1
       /\ ArgsOf(trace, "handler") = <<k>>
       /\ tc_calls[1].opcode = k
       /\ DOMAIN tc_calls[1].kwargs = DOMAIN ExpectedKwargs(k, rx_data)
       /\ \A a \in DOMAIN tc_calls[1].kwargs :
            tc_calls[1].kwargs[a] = ExpectedKwargs(k, rx_data)[a]

\* a valid command with two different non-zero argument bytes was dispatched
C11_Witness ==
  /\ op = "service" /\ rx_data # <<>> /\ ValidCommand(rx_data)
  /\ Len(tc_calls) = 1
  /\ DOMAIN tc_calls[1].kwargs = {"arg1", "arg2"}
  /\ tc_calls[1].kwargs["arg1"] = 1
  /\ tc_calls[1].kwargs["arg2"] > 1

----------------------------------------------------------------------------
(* Containment of command errors *)

\* position of the first event named e in tr, 0 when there is none
FirstEv(tr, e) ==
  IF HasEv(tr, e) THEN CHOOSE i \in 1..Len(tr) :
                         tr[i].ev = e /\ \A j \in 1..(i - 1) : tr[j].ev # e
  ELSE 0

\* C12: an exception raised by the argument decoding or by the handler is
\* contained: the service step returns normally, the client it had at entry
\* stays connected, open and polled, no disconnect hook is invoked, and the
\* telemetry scheduler is evaluated later in that same step
C12_CommandErrorContained ==
  (op = "service"
   /\ (HasEv(trace, "decode_args_fail") \/ HasEv(trace, "handler_raise"))) =>
    /\ ~raised
    /\ tcp_client_socket # None
    /\ tcp_client_socket = trace[1].arg
    /\ tcp_client_socket \in Range(monitored_sock)
    /\ tcp_client_socket \notin closed
    /\ ~HasEv(trace, "hook")
    /\ ~HasEv(trace, "close")
    /\ ~HasEv(trace, "err_service")
    /\ FirstEv(trace, "sched") > FirstEv(trace, "recv")

\* both kinds of command error have happened in a step that went on to send
\* telemetry: the arguments are too long for the command, or the handler raises
C12_WitnessDecode ==
  op = "service" /\ HasEv(trace, "decode_args_fail") /\ HasEv(trace, "tm")

C12_Witness ==
  op = "service" /\ HasEv(trace, "handler_raise") /\ HasEv(trace, "tm")

----------------------------------------------------------------------------
(* Frame of a dropped command *)

\* C13: after handle_command has met a malformed buffer (too short, wrong
\* start word, opcode out of range, or argument bytes not of the command's
\* size) the client socket, the polled set, the open sockets and every
\* group's last-send time are what they were before, no handler and no
\* disconnect hook has been invoked and nothing was sent.  The registry
\* (commands, command_args, TmPeriods) is fixed in this model.
C13_DropLeavesSessionUnchanged ==
  [][(op' = "handle_command" /\ ~ValidCommand(rx_data')) =>
       /\ tcp_client_socket' = tcp_client_socket
       /\ monitored_sock' = monitored_sock
       /\ closed' = closed
       /\ rx' = rx
       /\ last_tm_send_time' = last_tm_send_time
       /\ tc_calls' = <<>>
       /\ udp_out' = <<>>
       /\ ~raised'
       /\ ~HasEv(trace', "hook")
       /\ ~HasEv(trace', "close")]_vars

\* a buffer with a wrong start word was dropped while the groups had
\* last-send times
C13_Witness ==
  /\ op = "handle_command" /\ ~ValidCommand(rx_data)
  /\ HasEv(trace, "drop_start_word")
  /\ last_tm_send_time # <<>>
  /\ tcp_client_socket # None

\* every kind of malformed buffer is met
C13_WitnessShort == op = "handle_command" /\ HasEv(trace, "drop_short")
C13_WitnessOpcode == op = "handle_command" /\ HasEv(trace, "drop_opcode")
C13_WitnessIncomplete == op = "handle_command" /\ HasEv(trace, "drop_incomplete")
C13_WitnessTooLong == op = "handle_command" /\ HasEv(trace, "decode_args_fail")

----------------------------------------------------------------------------
(* Telemetry datagrams *)

\* the w bytes of v, most significant first
ByteString(v, w) == [k \in 1..w |-> (v \div 256 ^ (w - k)) % 256]

RECURSIVE Flatten(_)
Flatten(q) == IF q = <<>> THEN <<>> ELSE Head(q) \o Flatten(Tail(q))

\* the datagram of group i: PacketType, PacketID, then every point of the
\* group in declaration order
ExpectedDatagram(i) ==
  ByteString(TM_PACKETTYPE_VAL, PacketTypeBytes) \o ByteString(i - 1, PacketIdBytes)
  \o Flatten([j \in 1..Len(TmPointSizes[i]) |->
               ByteString(TmPointValues[i][j], TmPointSizes[i][j])])

\* the PacketID field of a datagram
PacketIdOf(d) ==
  BigEndian(SubSeq(d, PacketTypeBytes + 1, PacketTypeBytes + PacketIdBytes))

\* C17: every telemetry datagram is the two-field header followed by the
\* encodings of all the points of exactly one group, in declaration order;
\* when a point of a group fails, no datagram is sent for that group in
\* that evaluation
C17_NoPartialTelemetry ==
  /\ \A k \in 1..Len(udp_out) :
       \E i \in 1..Len(TmPeriods) : udp_out[k] = ExpectedDatagram(i)
  /\ \A i \in 1..Len(TmPeriods) :
       HasEvArg(trace, "encode_fail", i - 1) =>
         \A k \in 1..Len(udp_out) : PacketIdOf(udp_out[k]) # i - 1

\* the group of one point was sent and then a point of the group of two
\* points failed
C17_Witness ==
  /\ op = "service"
  /\ HasEvArg(trace, "encode_fail", 1)
  /\ udp_out = <<ExpectedDatagram(1)>>

\* both groups were sent in one step, the group of two points complete
C17_WitnessBoth ==
  op = "service" /\ udp_out = <<ExpectedDatagram(1), ExpectedDatagram(2)>>

----------------------------------------------------------------------------
(* The scheduler rule *)

\* the last-send time the evaluation of a step starts from (0 when the group
\* has none yet, lines 225-226)
LastOf(p) == IF p \in DOMAIN last_tm_send_time THEN last_tm_send_time[p] ELSE 0

\* group i is due at the evaluation of the step that ends in the primed state
DueAtStep(i) == now' - LastOf(TmPeriods[i]) >= TmPeriods[i]

\* the step sent a datagram of group i
SentInStep(i) == \E k \in 1..Len(udp_out') : PacketIdOf(udp_out'[k]) = i - 1

\* the encoded payload of group i is empty
EmptyPayload(i) == SumSeq(TmPointSizes[i]) = 0

\* C15: at each scheduler evaluation, every due group whose encoding succeeds
\* gets its last-send time set to the 'now' of the evaluation, and a datagram
\* unless its payload is empty; a group that is not due keeps its time and
\* sends nothing
C15_SchedulerRule ==
  [][(op' = "service" /\ HasEv(trace', "sched")) =>
       \A i \in 1..Len(TmPeriods) :
         /\ (DueAtStep(i) /\ ~HasEvArg(trace', "encode_fail", i - 1)) =>
              /\ TmPeriods[i] \in DOMAIN last_tm_send_time'
              /\ last_tm_send_time'[TmPeriods[i]] = now'
              /\ SentInStep(i) <=> ~EmptyPayload(i)
         /\ ~DueAtStep(i) =>
              /\ TmPeriods[i] \in DOMAIN last_tm_send_time'
              /\ last_tm_send_time'[TmPeriods[i]] = LastOf(TmPeriods[i])
              /\ ~SentInStep(i)]_vars

\* the same rule for the evaluations in which nothing raises
C15_RuleWhenNothingFails ==
  [][(op' = "service" /\ HasEv(trace', "sched")
      /\ ~HasEv(trace', "encode_fail") /\ ~HasEv(trace', "sendto_fail")) =>
       \A i \in 1..Len(TmPeriods) :
         /\ TmPeriods[i] \in DOMAIN last_tm_send_time'
         /\ DueAtStep(i) =>
              /\ last_tm_send_time'[TmPeriods[i]] = now'
              /\ SentInStep(i) <=> ~EmptyPayload(i)
         /\ ~DueAtStep(i) =>
              /\ last_tm_send_time'[TmPeriods[i]] = LastOf(TmPeriods[i])
              /\ ~SentInStep(i)]_vars

\* C16: when the encoding or a producer of one group fails, every other group
\* that is due in that evaluation, before or after the failing one, is still
\* sent and gets its last-send time set, unless it fails itself
C16_FailureAbortsOnlyItsGroup ==
  [][(op' = "service" /\ HasEv(trace', "sched")) =>
       \A i, j \in 1..Len(TmPeriods) :
         (/\ i # j
          /\ HasEvArg(trace', "encode_fail", i - 1)
          /\ DueAtStep(j)
          /\ ~HasEvArg(trace', "encode_fail", j - 1)
          /\ ~HasEvArg(trace', "sendto_fail", j - 1)) =>
           /\ SentInStep(j)
           /\ TmPeriods[j] \in DOMAIN last_tm_send_time'
           /\ last_tm_send_time'[TmPeriods[j]] = now']_vars

----------------------------------------------------------------------------
(* The timed run of the driver loop *)

\* the last service step of the run has been taken
RunOver == now > SimDuration \/ (op = "service" /\ now + SleepMs > SimDuration)

IndexOfPeriod(p) == CHOOSE i \in 1..Len(TmPeriods) : TmPeriods[i] = p

\* C14: with periods 1000 ms and 2000 ms, a connected client and service()
\* called every 100 ms of simulated time for 2500 ms, the 1000 ms group is
\* sent exactly twice and the 2000 ms group exactly once, and the last-send
\* time of each group is the clock of the step in which it was last sent
C14_TimedRun ==
  /\ TmPeriods = <<1000, 2000>>
  /\ RunOver =>
       /\ tm_sent[IndexOfPeriod(1000)].n = 2
       /\ tm_sent[IndexOfPeriod(2000)].n = 1
  /\ \A i \in 1..Len(TmPeriods) :
       /\ tm_sent[i].n <= (IF TmPeriods[i] = 1000 THEN 2 ELSE 1)
       /\ tm_sent[i].n > 0 =>
            /\ TmPeriods[i] \in DOMAIN last_tm_send_time
            /\ last_tm_send_time[TmPeriods[i]] = tm_sent[i].at
       /\ tm_sent[i].n = 0 =>
            (TmPeriods[i] \in DOMAIN last_tm_send_time =>
               last_tm_send_time[TmPeriods[i]] = 0)

\* the run is over and both groups have been sent, the last time at 2000 ms
C14_Witness ==
  /\ RunOver
  /\ tm_sent[1].n = 2 /\ tm_sent[1].at = 2000
  /\ tm_sent[2].n = 1 /\ tm_sent[2].at = 2000

----------------------------------------------------------------------------
(* Packet ids *)

\* the refresh periods of the telemetry members in the order the build meets
\* them: the children of an object in registration order, each with all that
\* is below it, then the object's own members
RECURSIVE PeriodsMet(_, _)
PeriodsMet(tr, obj) ==
  Flatten([i \in 1..Len(tr.children[obj]) |-> PeriodsMet(tr, tr.children[obj][i])])
  \o Flatten([j \in 1..Len(tr.members[obj]) |->
               IF tr.members[obj][j].kind = "TM"
               THEN <<tr.members[obj][j].period>> ELSE <<>>])

\* how many different periods are met before p is met for the first time
FirstMetIndex(q, p) ==
  LET first == CHOOSE i \in 1..Len(q) : q[i] = p /\ \A j \in 1..(i - 1) : q[j] # p
  IN Cardinality({q[j] : j \in 1..(first - 1)})

\* C18: the PacketID sent in the header of a group's datagram is the index of
\* the group's period in the order the periods were first met while the
\* registry was built, it is the id the mission-database export gives to that
\* period, and the PacketType sent is the TM value
C18_PacketIdIsFirstMetIndex ==
  (index.built /\ ~index.exc) =>
    LET met == PeriodsMet(tree, 1)
    IN /\ {tm_packet_headers(index)[i].period : i \in 1..Len(tm_packet_headers(index))}
            = Range(met)
       /\ \A i \in 1..Len(tm_packet_headers(index)) :
            LET h == tm_packet_headers(index)[i]
            IN /\ h.header = ByteString(TM_PACKETTYPE_VAL, PacketTypeBytes)
                             \o ByteString(FirstMetIndex(met, h.period), PacketIdBytes)
               /\ \E k \in 1..Len(mdb_packet_ids(index)) :
                    /\ mdb_packet_ids(index)[k].period = h.period
                    /\ mdb_packet_ids(index)[k].id = FirstMetIndex(met, h.period)
       /\ \A k \in 1..Len(mdb_packet_ids(index)) :
            mdb_packet_ids(index)[k].id = FirstMetIndex(met, mdb_packet_ids(index)[k].period)

\* a registry was built in which the longer period was met first and so has
\* the smaller id
C18_Witness ==
  /\ index.built /\ ~index.exc
  /\ get_tm_periods(index) = <<2000, 1000>>
  /\ tm_packet_headers(index)[2].period = 1000
  /\ PacketIdOf(tm_packet_headers(index)[2].header) = 1

----------------------------------------------------------------------------
(* Full names *)

\* every entry of the registry: the telemetry points of all groups, then the
\* commands
AllEntries(ix) ==
  Flatten([i \in 1..Len(ix.telemetry) |-> ix.telemetry[i].list]) \o ix.commands

\* the names from the root down to obj
RECURSIVE Chain(_, _)
Chain(tr, obj) ==
  IF \E p \in DOMAIN tr.children : obj \in Range(tr.children[p])
  THEN Append(Chain(tr, CHOOSE p \in DOMAIN tr.children : obj \in Range(tr.children[p])),
              tr.yamcs_name[obj])
  ELSE <<tr.yamcs_name[obj]>>

\* the names of a chain and the member name, joined by "-"
RECURSIVE Join(_)
Join(q) == IF Len(q) = 1 THEN q[1] ELSE q[1] \o <<"-">> \o Join(Tail(q))

FullName(tr, obj, j) == Join(Append(Chain(tr, obj), tr.members[obj][j].name))

\* the members of the tree
Members(tr) == {<<obj, j>> : obj \in DOMAIN tr.members, j \in 1..3} \cap
               {x \in (DOMAIN tr.members) \X (1..3) : x[2] <= Len(tr.members[x[1]])}

\* two different members of the tree resolve to the same full name
NameClash(tr) ==
  \E x, y \in Members(tr) : x # y /\ FullName(tr, x[1], x[2]) = FullName(tr, y[1], y[2])

\* C19 (I1): after a build that succeeds, the full names of all telemetry
\* points of all groups and of all commands are pairwise distinct; a tree in
\* which two members resolve to the same full name, whatever their kinds and
\* refresh periods, makes the build fail
C19_FullNamesUnique ==
  index.built =>
    /\ ~index.exc =>
         \A i, j \in 1..Len(AllEntries(index)) :
           i # j => AllEntries(index)[i].fullname # AllEntries(index)[j].fullname
    /\ NameClash(tree) => index.exc

\* C20: members with the same local name owned by components whose name
\* chains differ get different full names, each the chain of ancestor names,
\* the owner's name and the member name joined by the separator, and a tree
\* whose components all have different chains is built without error
C20_DistinctChainsDistinctNames ==
  index.built =>
    /\ (\A m, n \in DOMAIN tree.yamcs_name :
          m # n => Chain(tree, m) # Chain(tree, n)) => ~index.exc
    /\ \A i \in 1..Len(AllEntries(index)) :
         LET x == AllEntries(index)[i]
         IN /\ x.fullname = Join(Append(Chain(tree, x.obj), x.method))
            /\ \A j \in 1..Len(AllEntries(index)) :
                 LET y == AllEntries(index)[j]
                 IN (x.method = y.method /\ Chain(tree, x.obj) # Chain(tree, y.obj))
                      => x.fullname # y.fullname

\* a tree was built without error in which the child of object 2 and object 2
\* itself, of different chains, each own a member f, the child having an
\* empty name
C20_Witness ==
  /\ index.built /\ ~index.exc
  /\ tree.children[2] = <<3>>
  /\ tree.yamcs_name[3] = <<>>
  /\ \E i, j \in 1..Len(AllEntries(index)) :
       /\ AllEntries(index)[i].obj = 2 /\ AllEntries(index)[j].obj = 3
       /\ AllEntries(index)[i].method = <<"f">>
       /\ AllEntries(index)[j].method = <<"f">>
       /\ AllEntries(index)[i].fullname # AllEntries(index)[j].fullname

----------------------------------------------------------------------------
(* Opcodes *)

\* the commands of the tree in the order the build meets them
RECURSIVE CommandsMet(_, _)
CommandsMet(tr, obj) ==
  Flatten([i \in 1..Len(tr.children[obj]) |-> CommandsMet(tr, tr.children[obj][i])])
  \o Flatten([j \in 1..Len(tr.members[obj]) |->
               IF tr.members[obj][j].kind = "TC"
               THEN <<[obj |-> obj, method |-> tr.members[obj][j].name]>> ELSE <<>>])

\* C21 (I2): after every build the opcodes reported by the command definition
\* are exactly 0..n-1, n the number of commands, the command reported under
\* opcode k is the command dispatch invokes for k, and it is the command at
\* position k of the commands in the order the build met them
C21_OpcodeIsIndex ==
  index.built =>
    LET n == Len(index.commands)
        met == CommandsMet(tree, 1)
    IN /\ DOMAIN get_tc_def(index) = 0..(n - 1)
       /\ n <= Len(met)
       /\ ~index.exc => n = Len(met)
       /\ \A k \in 0..(n - 1) :
            /\ get_tc_def(index)[k].obj = call_tc_cmd(index, k).obj
            /\ get_tc_def(index)[k].method = call_tc_cmd(index, k).method
            /\ get_tc_def(index)[k].name = call_tc_cmd(index, k).fullname
            /\ call_tc_cmd(index, k).obj = met[k + 1].obj
            /\ call_tc_cmd(index, k).method = met[k + 1].method
            /\ get_tc_def(index)[k].name
                 = Join(Append(Chain(tree, met[k + 1].obj), met[k + 1].method))

\* a registry with three commands was built, the root's own command last
C21_Witness ==
  /\ index.built /\ ~index.exc
  /\ Len(index.commands) = 3
  /\ call_tc_cmd(index, 2).obj = 1
  /\ get_tc_def(index)[0].obj # 1

----------------------------------------------------------------------------
(* Rebuild *)

\* the objects reachable from obj through the children lists
RECURSIVE Below(_, _)
Below(tr, obj) ==
  {obj} \cup UNION {Below(tr, tr.children[obj][i]) : i \in 1..Len(tr.children[obj])}

\* the tagged methods of the objects reachable from the root
ReachableMembers(tr) ==
  UNION {{[obj |-> o, method |-> tr.members[o][j].name] :
            j \in 1..Len(tr.members[o])} : o \in Below(tr, 1)}

\* C22: update_index replaces the snapshot: what it leaves is what a first
\* build of the current tree gives; when it succeeds the groups and the
\* command list hold exactly the members reachable in the current tree; and
\* rebuilding a tree that was not changed since the last build leaves the
\* snapshot as it is
C22_RebuildReplacesSnapshot ==
  [][op' = "update_index" =>
       /\ index' = update_index(NotBuilt, tree')
       /\ ~index'.exc =>
            /\ {[obj |-> AllEntries(index')[i].obj, method |-> AllEntries(index')[i].method] :
                  i \in 1..Len(AllEntries(index'))} = ReachableMembers(tree')
            /\ Len(AllEntries(index')) = Cardinality(ReachableMembers(tree'))
       /\ op = "update_index" => index' = index]_vars

\* a snapshot built when only object 2 was registered has been rebuilt after
\* object 3 was registered too, and holds entries of both
C22_Witness ==
  /\ op = "update_index" /\ index.built /\ ~index.exc
  /\ Len(tree.children[1]) = 2
  /\ \E i, j \in 1..Len(AllEntries(index)) :
       AllEntries(index)[i].obj = 2 /\ AllEntries(index)[j].obj = 3

----------------------------------------------------------------------------
(* Codec round trip *)

\* the values an integer type can hold, and the width of a type in bytes
IntRange(type) ==
  IF type = "U8" THEN 0..255
  ELSE IF type = "I8" THEN -128..127
  ELSE IF type = "U16" THEN 0..65535
  ELSE -32768..32767
IsIntType(type) == type \in {"U8", "I8", "U16", "I16"}
DeclaredLength(type) == IF type = "string2" THEN 2 ELSE 3
DeclaredWidth(type) ==
  IF type \in {"U8", "I8"} THEN 1
  ELSE IF type \in {"U16", "I16"} THEN 2
  ELSE DeclaredLength(type)

\* values has one value per field, each integer fits its type and each string
\* is shorter than its declared length and holds no zero byte
Encodable(fields, values) ==
  /\ Len(values) = Len(fields)
  /\ \A i \in 1..Len(fields) :
       IF IsIntType(fields[i].type) THEN values[i] \in IntRange(fields[i].type)
       ELSE /\ Len(values[i]) < DeclaredLength(fields[i].type)
            /\ \A j \in 1..Len(values[i]) : values[i][j] # 0

\* the map from each field name to its value
ValueMap(fields, values) ==
  [nm \in {fields[i].name : i \in 1..Len(fields)} |->
     values[CHOOSE i \in 1..Len(fields) : fields[i].name = nm]]

\* C25: serialise of an encodable value list succeeds and returns exactly
\* minsize bytes, minsize being the sum of the widths of the fields, and
\* deserialise of these bytes returns the map from each field name to the
\* value that was encoded
C25_RoundTrip ==
  (/\ codec.call \in {"serialise", "deserialise"}
   /\ codec.ser_exc # "no call"
   /\ Encodable(serder.fields, codec.values))
  => /\ codec.ser_exc = "none"
     /\ Len(codec.encoded) = serder.minsize
     /\ serder.minsize =
          SumSeq([i \in 1..Len(serder.fields) |-> DeclaredWidth(serder.fields[i].type)])
     /\ codec.call = "deserialise"
        => /\ codec.exc = "none"
           /\ codec.decoded = ValueMap(serder.fields, codec.values)

\* a 16-bit integer and a two-character string have been encoded in 5 bytes
\* and decoded again
C25_Witness ==
  /\ codec.call = "deserialise"
  /\ codec.ser_exc = "none"
  /\ Len(serder.fields) = 2
  /\ serder.fields[1].type = "U16"
  /\ serder.fields[2].type = "string3"
  /\ codec.values = <<256, <<65, 65>>>>
  /\ codec.encoded = <<1, 0, 65, 65, 0>>
  /\ codec.exact

----------------------------------------------------------------------------
(* String bound *)

\* the position before the first byte of field i in the encoded buffer
OffsetOf(fields, i) ==
  SumSeq([j \in 1..(i - 1) |-> DeclaredWidth(fields[j].type)])

StringFields(fields) == {i \in 1..Len(fields) : ~IsIntType(fields[i].type)}

\* C26: serialise of one value per field fails with the length error
\* (ValueError) when some string value has as many bytes as the declared
\* length of its field or more; when every string value is shorter it raises
\* no length error, and in the buffer it returns each string field occupies
\* exactly its declared length: the value, then zero bytes, at least one
C26_StringBound ==
  (/\ codec.call = "serialise"
   /\ Len(codec.values) = Len(serder.fields))
  => LET fields == serder.fields
         TooLong == {i \in StringFields(fields) :
                       Len(codec.values[i]) >= DeclaredLength(fields[i].type)}
     IN /\ TooLong # {} => codec.exc = "ValueError"
        /\ TooLong = {} => codec.exc # "ValueError"
        /\ codec.exc = "none"
           => \A i \in StringFields(fields) :
                LET n == DeclaredLength(fields[i].type)
                    field == SubSeq(codec.encoded, OffsetOf(fields, i) + 1,
                                    OffsetOf(fields, i) + n)
                    v == codec.values[i]
                IN /\ Len(field) = n
                   /\ SubSeq(field, 1, Len(v)) = v
                   /\ \A j \in (Len(v) + 1)..n : field[j] = 0
                   /\ field[n] = 0

\* a string of n-1 = 2 bytes has been encoded in a field of 3 bytes that
\* follows an integer
C26_Witness ==
  /\ codec.call = "serialise"
  /\ codec.exc = "none"
  /\ Len(serder.fields) = 2
  /\ serder.fields[1].type = "U8"
  /\ serder.fields[2].type = "string3"
  /\ codec.values[2] = <<65, 65>>
  /\ codec.encoded = <<255, 65, 65, 0>>

----------------------------------------------------------------------------
(* Decode size rule *)

\* the bytes of b before its first zero byte
BeforeFirstZero(b) ==
  LET Z == {i \in 1..Len(b) : b[i] = 0}
  IN IF Z = {} THEN b
     ELSE SubSeq(b, 1, (CHOOSE i \in Z : \A j \in Z : i <= j) - 1)

\* every string field of the first minsize bytes of b holds valid UTF-8 before
\* its first zero byte
StringsDecodable(fields, b) ==
  \A i \in StringFields(fields) :
    LET text == BeforeFirstZero(SubSeq(b, OffsetOf(fields, i) + 1,
                                       OffsetOf(fields, i) + DeclaredLength(fields[i].type)))
    IN \A j \in 1..Len(text) : text[j] < 128

\* the length part of the rule: with exact_length deserialise succeeds only on
\* a buffer of minsize bytes and raises the size error (struct.error) on any
\* other; without it, it raises the size error on a shorter buffer and gives
\* the outcome of decoding the first minsize bytes on any other
DecodeLengthRule ==
  /\ codec.exact
     => /\ codec.exc = "none" => Len(codec.buf) = serder.minsize
        /\ Len(codec.buf) # serder.minsize => codec.exc = "struct.error"
  /\ ~codec.exact
     => /\ Len(codec.buf) < serder.minsize => codec.exc = "struct.error"
        /\ Len(codec.buf) >= serder.minsize
           => LET first == SerDer_deserialise(serder, SubSeq(codec.buf, 1, serder.minsize), TRUE)
              IN /\ codec.exc = first.exc
                 /\ codec.decoded = first.result

\* C27 as stated: the length rule, and deserialise without exact_length
\* succeeds for every buffer of at least minsize bytes
C27_DecodeSizeRule ==
  codec.call = "deserialise"
  => /\ DecodeLengthRule
     /\ (~codec.exact /\ Len(codec.buf) >= serder.minsize) => codec.exc = "none"

\* C27 amended: the length rule, and deserialise succeeds for every buffer of
\* the right length (at least minsize bytes without exact_length, exactly
\* minsize with it) whose string fields hold valid UTF-8; on one that holds
\* an invalid byte it raises UnicodeDecodeError
C27_DecodeSizeRuleValidUtf8 ==
  codec.call = "deserialise"
  => /\ DecodeLengthRule
     /\ (IF codec.exact THEN Len(codec.buf) = serder.minsize
                        ELSE Len(codec.buf) >= serder.minsize)
        => IF StringsDecodable(serder.fields, codec.buf)
           THEN codec.exc = "none"
           ELSE codec.exc = "UnicodeDecodeError"

\* a buffer one byte longer than minsize has been decoded without
\* exact_length: the string before the padding is returned and the last byte,
\* not valid UTF-8, is ignored
C27_Witness ==
  /\ codec.call = "deserialise"
  /\ ~codec.exact
  /\ Len(serder.fields) = 1
  /\ serder.fields[1].type = "string2"
  /\ codec.buf = <<65, 0, 255>>
  /\ codec.exc = "none"
  /\ codec.decoded[FieldName(1)] = <<65>>

----------------------------------------------------------------------------
(* Unsupported field types *)

IsFixedString(type) == type \in {"string2", "string3"}

\* C28: SerDer(fields) raises when a field has a type that is neither a
\* supported primitive nor a fixed-size string, and the registration of a
\* member declared with a type that is neither of these nor a declared enum
\* raises and leaves no codec for it
C28_UnsupportedTypeRaises ==
  /\ (/\ codec.call = "init"
      /\ \E i \in 1..Len(serder.fields) :
           ~IsIntType(serder.fields[i].type) /\ ~IsFixedString(serder.fields[i].type))
     => codec.exc = "KeyError"
  /\ (/\ codec.call = "init"
      /\ codec.exc = "KeyError")
     => ~serder.built
  /\ (/\ codec.call = "register"
      /\ ~IsIntType(codec.declared)
      /\ ~IsFixedString(codec.declared)
      /\ codec.declared \notin DeclaredEnums)
     => /\ codec.exc # "none"
        /\ ~serder.built

----------------------------------------------------------------------------
(* Events *)

\* the objects above obj, from its parent up to the one that has no parent
RECURSIVE Ancestors(_, _)
Ancestors(tr, obj) ==
  IF parent(tr, obj) = None THEN <<>>
  ELSE <<parent(tr, obj)>> \o Ancestors(tr, parent(tr, obj))

\* obj is attached, at some depth, under the link
UnderLink(tr, obj) ==
  /\ Ancestors(tr, obj) # <<>>
  /\ Ancestors(tr, obj)[Len(Ancestors(tr, obj))] = LinkObj

\* the bytes of a string in a field of n bytes
Padded(b, n) == b \o [i \in 1..(n - Len(b)) |-> 0]

\* the event packet: PacketType = EVENT, PacketID = 0, severity, source, message
EventDatagram(severity, source, message) ==
  ByteString(EVENTS_PACKETTYPE_VAL, PacketTypeBytes) \o ByteString(0, PacketIdBytes)
  \o <<severity>> \o Padded(source, EVENT_SOURCESTR_SIZE) \o Padded(message, EVENT_MSG_SIZE)

\* the source and the message of the last event fit their fields
EventFits ==
  /\ Len(tree.yamcs_name[emitted.emitter]) < EVENT_SOURCESTR_SIZE
  /\ Len(emitted.message) < EVENT_MSG_SIZE

\* the last event was passed to each object above the emitter in turn, from
\* its parent to the link, and to nobody else
ForwardedToRoot ==
  ArgsOf(trace, "send_event") = Ancestors(tree, emitted.emitter)

\* C23 as stated: an event emitted by a component under the link is passed
\* parent by parent up to the link and exactly one datagram is sent, the event
\* packet of the given severity, source and message
C23_EventReachesTarget ==
  (op = "event" /\ UnderLink(tree, emitted.emitter))
  => /\ ForwardedToRoot
     /\ ~raised
     /\ udp_out = <<EventDatagram(emitted.severity,
                                  NameBytes(tree.yamcs_name[emitted.emitter]),
                                  emitted.message)>>
     /\ ArgsOf(trace, "sendto") = <<LinkObj>>

\* C23 amended: the event is passed parent by parent up to the link; when the
\* source is shorter than 80 bytes and the message shorter than 256 bytes
\* exactly one datagram is sent, the event packet, by the link alone;
\* otherwise the call raises and nothing is sent
C23_EventReachesTargetIfItFits ==
  (op = "event" /\ UnderLink(tree, emitted.emitter))
  => /\ ForwardedToRoot
     /\ IF EventFits
        THEN /\ ~raised
             /\ udp_out = <<EventDatagram(emitted.severity,
                                          NameBytes(tree.yamcs_name[emitted.emitter]),
                                          emitted.message)>>
             /\ ArgsOf(trace, "sendto") = <<LinkObj>>
        ELSE /\ raised
             /\ HasEvArg(trace, "ValueError", LinkObj)
             /\ udp_out = <<>>

\* a component two levels below the link has emitted an event with the longest
\* message that fits, and one datagram has left
C23_Witness ==
  /\ op = "event"
  /\ emitted.emitter = 3
  /\ Ancestors(tree, 3) = <<2, LinkObj>>
  /\ emitted.severity = 7
  /\ Len(emitted.message) = EVENT_MSG_SIZE - 1
  /\ Len(udp_out) = 1
  /\ ~raised

\* C24: an event emitted on an object that has no parent and is not the link,
\* or on an object whose chain of parents ends in such an object, raises to
\* the caller and sends nothing
C24_DetachedEmitRaises ==
  (/\ op = "event"
   /\ emitted.emitter # LinkObj
   /\ ~UnderLink(tree, emitted.emitter))
  => /\ raised
     /\ udp_out = <<>>
     /\ ~HasEv(trace, "sendto")
     /\ \/ HasEv(trace, "AttributeError")
        \/ HasEv(trace, "NotImplementedError")

\* a component registered under an object that has no parent has emitted an
\* event: the object above it raised NotImplementedError
C24_Witness ==
  /\ op = "event"
  /\ emitted.emitter = 3
  /\ Ancestors(tree, 3) = <<2>>
  /\ raised
  /\ HasEvArg(trace, "NotImplementedError", 2)

----------------------------------------------------------------------------
(* Construction errors and the sockets *)

\* the sockets that have been made and not closed
OpenSockets == created \ closed

\* C29: when the build of the registry fails at start-up, no socket has been
\* opened, or none is left open when generate_mdb reports the error
C29_BuildFailureBeforeSockets ==
  (op = "generate_mdb" /\ index.exc)
  => \/ created = {}
     \/ OpenSockets = {}

----------------------------------------------------------------------------
(* One service step *)

\* how many events named e the last operation logged
CountEv(e) == Len(ArgsOf(trace, e))

\* how many times the last operation went through group i (0-based) of the
\* telemetry: sent it, or failed to encode or to send it
GroupVisits(i) ==
  Cardinality({k \in DOMAIN trace :
                 /\ trace[k].ev \in {"tm", "encode_fail", "sendto_fail"}
                 /\ trace[k].arg = i})

\* C30: a call of service() returns to the driver after one select(), at most
\* one accept(), at most one recv() on the client socket with at most one
\* handler invoked, and at most one pass of the scheduler, which goes through
\* each telemetry group at most once
C30_ServiceStepBounded ==
  op = "service"
  => /\ ~raised
     /\ CountEv("select") + CountEv("select_fail") = 1
     /\ trace[1].ev \in {"select", "select_fail"}
     /\ CountEv("accept") + CountEv("accept_fail") <= 1
     /\ CountEv("recv") + CountEv("recv_fail") <= 1
     /\ CountEv("handler") <= 1
     /\ CountEv("sched") <= 1
     /\ \A i \in 0..(Len(TmPeriods) - 1) : GroupVisits(i) <= 1

\* a step that read one command, ran its handler and sent both groups
C30_Witness ==
  /\ op = "service"
  /\ CountEv("select") = 1
  /\ CountEv("recv") = 1
  /\ CountEv("handler") = 1
  /\ CountEv("sched") = 1
  /\ GroupVisits(0) = 1
  /\ GroupVisits(1) = 1

----------------------------------------------------------------------------
(* Buffers longer than one command *)

\* the opcode a buffer with a good header addresses
OpcodeOf(b) == unpack_unsigned(SubSeq(b, StartWordBytes + 1, HeaderSize))

\* the received buffer has a good header and more bytes after it than the
\* arguments of the addressed command take
Overlong(b) ==
  /\ ~BadHeader(b)
  /\ Len(b) > HeaderSize + commands[OpcodeOf(b) + 1]

\* C31: a service step that reads a buffer longer than the header plus the
\* arguments of the addressed command invokes no handler: the decode of the
\* arguments fails, handle_command contains the failure, and the client that
\* was read stays the connected client, open and polled
C31_OverlongNeverDispatched ==
  (op = "service" /\ HasEv(trace, "recv") /\ Overlong(rx_data))
  => /\ tc_calls = <<>>
     /\ ~HasEv(trace, "handler")
     /\ HasEvArg(trace, "decode_args_fail", OpcodeOf(rx_data))
     /\ HasEvArg(trace, "err_command", OpcodeOf(rx_data))
     /\ ~HasEv(trace, "err_service")
     /\ ~raised
     /\ tcp_client_socket # None
     /\ HasEvArg(trace, "select", tcp_client_socket)
     /\ tcp_client_socket \in Range(monitored_sock)
     /\ tcp_client_socket \notin closed

\* a command with all its argument bytes and one byte more has been read
C31_Witness ==
  /\ op = "service"
  /\ HasEv(trace, "recv")
  /\ Len(rx_data) = HeaderSize + MaxArgLen + 1
  /\ SubSeq(rx_data, 1, StartWordBytes) = START_WORD
  /\ OpcodeOf(rx_data) = 0
  /\ HasEv(trace, "decode_args_fail")
  /\ tcp_client_socket # None

----------------------------------------------------------------------------
(* Exceptions and disconnect hooks *)

\* C32: a call of service() returns normally whatever fails in it: select,
\* accept, recv, a command handler, a telemetry producer or a disconnect hook
C32_ServiceNeverRaises ==
  op = "service" => ~raised

\* how many times the last operation invoked the hook of component c, and how
\* many times it closed an accepted socket
HookCount(c) == Cardinality({k \in DOMAIN trace : trace[k] = Ev("hook", c)})
ClientCloses ==
  Cardinality({k \in DOMAIN trace : trace[k].ev = "close" /\ trace[k].arg \in ConnSocks})

\* C33: in every service step and every shutdown the hook of each component is
\* invoked as many times as a connected client is closed, and a step that
\* starts with no client and accepts none invokes no hook
C33_HooksMatchCloses ==
  [][op' \in {"service", "shutdown"}
       => /\ \A c \in Components : HookCount(c)' = ClientCloses'
          /\ (tcp_client_socket = None /\ ~HasEv(trace', "accept"))
             => ~HasEv(trace', "hook")]_vars

----------------------------------------------------------------------------
(* The spacing of the datagrams of one group over a run *)

\* C34: a step sends at most one datagram of a group, and a datagram of a
\* group that was sent before leaves at least the group's period after the
\* previous one, whatever closes and accepts happened in between
C34_MinimumSpacing ==
  [][op' = "service" =>
       \A i \in 1..Len(TmPeriods) :
         /\ CountGroup(udp_out', i) <= 1
         /\ (CountGroup(udp_out', i) = 1 /\ tm_sent[i].n > 0) =>
              now' - tm_sent[i].at >= TmPeriods[i]]_vars

\* a group is sent a second time, to the second client
C34_Witness ==
  /\ op = "service"
  /\ nacc = 2
  /\ HasEvArg(trace, "tm", 0)
  /\ tm_sent[1].n = 2
  /\ tm_sent[1].at = now

----------------------------------------------------------------------------
(* The socket commands are read from *)

\* C37: a step calls a handler only for a buffer read from the socket that is
\* the client when the step starts and still is when it ends: that socket
\* had data waiting, no connection was accepted in the step, and the data
\* waiting on every other accepted socket is left unread
C37_OnlyCurrentClientDispatched ==
  [][(op' = "service" /\ (HasEv(trace', "handler") \/ HasEv(trace', "recv"))) =>
       /\ tcp_client_socket # None
       /\ ~HasEv(trace', "accept")
       /\ HasEv(trace', "handler") =>
            /\ rx[tcp_client_socket] = "data"
            /\ rx'[tcp_client_socket] = "idle"
       /\ \A c \in ConnSocks :
            (c # tcp_client_socket /\ rx[c] = "data") => rx'[c] = "data"]_vars

\* a second connection is accepted in a step in which the first one has a
\* buffer waiting: the buffer stays unread and no handler runs
C37_Witness ==
  /\ op = "service"
  /\ HasEvArg(trace, "accept", ConnSock(2))
  /\ rx[ConnSock(1)] = "data"
  /\ tcp_client_socket = ConnSock(2)
  /\ ~HasEv(trace, "recv")
  /\ ~HasEv(trace, "handler")

----------------------------------------------------------------------------
(* service() after _shutdown() *)

\* _shutdown() has run to its end: the listening and the UDP socket are closed
ShutdownCompleted == {ServerSock, UdpSock} \subseteq closed

\* C38: a service step taken after _shutdown() has completed accepts no
\* connection, reads nothing, calls no handler and no hook, sends no
\* datagram, closes nothing and returns normally
C38_ShutdownIsTerminal ==
  (op = "service" /\ ShutdownCompleted) =>
    /\ ~raised
    /\ tcp_client_socket = None
    /\ udp_out = <<>>
    /\ tc_calls = <<>>
    /\ \A e \in {"accept", "recv", "handler", "hook", "tm", "sched", "close"} :
         ~HasEv(trace, e)

\* a step after the shutdown, with unread data of an earlier connection
\* waiting on a socket that is still polled
C38_Witness ==
  /\ op = "service"
  /\ ShutdownCompleted
  /\ HasEv(trace, "select_fail")
  /\ \E c \in ConnSocks : c \in Range(monitored_sock) /\ rx[c] = "data"

----------------------------------------------------------------------------
(* The signal handler at every point of a service step *)

\* C39: whenever the signal handler has run, after whatever statement of
\* service() or _close_tcp_connection, _shutdown() returned normally, the
\* last accepted connection, the listening socket and the UDP socket are
\* closed, and no component's hook ran more than once in the interrupted step
\* and the handler together
C39_SignalShutdownSafe ==
  op = "exit" =>
    /\ ~raised
    /\ ShutdownCompleted
    /\ tcp_client_socket = None
    /\ nacc > 0 => ConnSock(nacc) \in closed
    /\ \A c \in Components : HookCount(c) <= 1

\* the same, for a signal that arrives between two service steps
C39_SafeBetweenSteps ==
  [][(AtRest /\ op' = "exit") =>
       /\ ~raised'
       /\ ShutdownCompleted'
       /\ tcp_client_socket' = None
       /\ nacc' > 0 => ConnSock(nacc') \in closed'
       /\ \A c \in Components : HookCount(c)' <= 1]_vars

====
